---- MODULE Spec2Model ----
(***************************************************************************)
(* Model of the OpenSync room coordination server (src/unnamed/part_005).  *)
(* Every inbound message and every timer callback is handled to            *)
(* completion (single-threaded event loop), so each handler is one action. *)
(* Time is abstract: an armed timer may fire at any later step.            *)
(* The browser client (src/content/websocketClient.js) is modelled beside  *)
(* it in the variable client: its sockets, its promises and its timers.    *)
(***************************************************************************)
EXTENDS Naturals, Integers, Sequences, FiniteSets, TLC

\* ------------------------------------------------------------- bounds
\* Connections accepted over the life of the server.
MaxConns == 3
\* Largest currentTime a payload carries (0..MaxTime).
MaxTime == 1
\* URL_CHANGE auto-clear timers pending per connection.
MaxNavTimers == 2
\* Sockets the client creates over its life (one per connect() call).
MaxSockets == 6
\* Sockets of a client whose page calls connect() at any time.
FewSockets == 3
\* connect() calls the page makes (the others are reconnect attempts).
MaxPageConnects == 2
\* connect() calls made while the 5-second timer of an earlier call is
\* still pending.
TimeoutWindow == 1

\* ------------------------------------------------------------- values
Null == "null"
NoTime == -1
Conns == 1..MaxConns
\* Sample room codes over the alphabet of generateRoomCode.
Codes == {"AB23CD", "XY45ZW"}
\* Sample usernames in order of first use; they include the two defaults of
\* the handlers ('Host' for CREATE_ROOM, 'Guest' for JOIN_ROOM).
NameOrder == <<"Host", "Guest", "Ann">>
Users == {NameOrder[i] : i \in 1..Len(NameOrder)}
Urls == {"X", "Y"}
Times == 0..MaxTime

VARIABLES
    conn,       \* per connection: ws.readyState and the clientData record
    rooms,      \* the rooms Map: code -> room object, or NoRoom
    navTimers,  \* per connection: pending isNavigating auto-clear timers
    sent,       \* messages written to sockets by the last step, in order
    last,       \* the last step: handler, connection, room, username
    barrier,    \* per room code, history of the navigation barrier
    orphans,    \* per room code, armed timers of a room object that has
                \* left the registry
    client      \* the module state of one OpenSyncWebSocketClient, its
                \* sockets and its timers

vars == <<conn, rooms, navTimers, sent, last, barrier, orphans, client>>

\* The server's state.
serverVars == <<conn, rooms, navTimers, sent, last, barrier, orphans>>

\* ------------------------------------------------------------- helpers
SeqToSet(s) == {s[i] : i \in 1..Len(s)}

RemoveFrom(s, x) == SelectSeq(s, LAMBDA y: y # x)

RemoveAll(s, S) == SelectSeq(s, LAMBDA y: y \notin S)

\* clients.set(ws, clientData): an existing key keeps its position.
MapSet(s, x) == IF x \in SeqToSet(s) THEN s ELSE Append(s, x)

\* ws.readyState === WebSocket.OPEN, in connection table cs.
IsOpen(cs, c) == cs[c].st = "open"

Msg(to, type, room, p) == [to |-> to, type |-> type, room |-> room, p |-> p]

\* sendToClient: the message is written only to an OPEN socket.
SendToClient(cs, c, type, room, p) ==
    IF IsOpen(cs, c) THEN <<Msg(c, type, room, p)>> ELSE <<>>

\* Iteration over a clients map sending to each OPEN socket but exclude.
SendEach(cs, clients, type, room, p, exclude) ==
    LET tgt == SelectSeq(clients, LAMBDA x: x # exclude /\ IsOpen(cs, x))
    IN  [i \in 1..Len(tgt) |-> Msg(tgt[i], type, room, p)]

\* Mutation: broadcastToRoom ignores excludeWs.
BroadcastToRoomAll(cs, rs, code, type, p, exclude) ==
    IF ~rs[code].live THEN <<>>
    ELSE SendEach(cs, rs[code].clients, type, code, p, 0)

\* broadcastToRoom: nothing when the code is not in the registry.
BroadcastToRoom(cs, rs, code, type, p, exclude) ==
    IF ~rs[code].live THEN <<>>
    ELSE SendEach(cs, rs[code].clients, type, code, p, exclude)

\* The clientData record of a fresh connection, with the socket's state:
\* st is ws.readyState ("terminated": destroyed by ws.terminate(), its
\* close event not yet handled), isAlive the heartbeat flag, pingPending a
\* ping frame of the heartbeat the peer has not answered.
NewClientData ==
    [st |-> "open", roomCode |-> Null, username |-> Null, isHost |-> FALSE,
     currentUrl |-> Null, isNavigating |-> FALSE, isReady |-> TRUE,
     isAlive |-> TRUE, pingPending |-> FALSE]

NoConn == [NewClientData EXCEPT !.st = "new"]

\* room.videoState = null; playbackRate 0 stands for a state without one.
NoVideoState == [set |-> FALSE, currentTime |-> 0, isPlaying |-> FALSE,
                 playbackRate |-> 0]

\* The room object of handleCreateRoom (pendingDisconnects, deleteTimeout,
\* pendingSyncTime and pendingSyncUser start undefined); stale stands for
\* now - createdAt > staleThreshold.
NewRoom(c) ==
    [live |-> TRUE, host |-> c, clients |-> <<c>>, pending |-> {},
     videoState |-> NoVideoState, currentUrl |-> Null,
     pendingSyncTime |-> NoTime, pendingSyncUser |-> Null,
     deleteTimeout |-> FALSE, stale |-> FALSE]

\* A code that is not a key of the rooms Map.
NoRoom == [NewRoom(0) EXCEPT !.live = FALSE, !.clients = <<>>]

\* No timer of a room object outside the registry: grace counts its grace
\* timers, del is its armed deletion timer.
NoOrphans == [grace |-> 0, del |-> FALSE]

NoBarrier == [active |-> FALSE, users |-> {}, ready |-> {}, released |-> FALSE,
              time |-> 0]

Step(op, c, room, user) == [op |-> op, c |-> c, room |-> room, user |-> user]

\* payload.username || dflt
NameOr(u, dflt) == IF u = Null THEN dflt ELSE u

\* payload.roomCode?.toUpperCase() on the sample codes.
ToUpperCase(s) ==
    CASE s = "ab23cd" -> "AB23CD"
      [] s = "xy45zw" -> "XY45ZW"
      [] OTHER -> s

\* Mutation: users in their grace period are not counted.
ConnectedParticipants(room) == Len(room.clients)

\* room.clients.size + room.pendingDisconnects.size
EffectiveParticipants(room) == Len(room.clients) + Cardinality(room.pending)

\* clientData.roomCode = null; username = null; isHost = false
ClearClient(cd) == [cd EXCEPT !.roomCode = Null, !.username = Null, !.isHost = FALSE]

\* ------------------------------------------------------------- client values
MAX_RECONNECT_ATTEMPTS == 5
Sockets == 1..MaxSockets
\* Usernames the page passes to joinRoom; 'User' is the module's default.
ClientNames == {"Ann"}

\* A socket no connect() call has created yet.
NoSocket == [st |-> "none", promise |-> "none", timeout |-> FALSE, origin |-> "none"]

\* The module's variables as declared, no socket created, no timer armed.
\* timers counts the reconnect timers armed in the event loop; out and threw
\* describe the last client step (frames sent, an exception raised);
\* disconnected records that disconnect() has returned and connect() was
\* not called since.
NewClient ==
    [ws |-> 0, roomCode |-> Null, username |-> "User", isConnected |-> FALSE,
     reconnectAttempts |-> 0, reconnectTimer |-> FALSE, timers |-> 0,
     socks |-> [s \in Sockets |-> NoSocket],
     out |-> <<>>, threw |-> FALSE,
     disconnected |-> FALSE]

Init ==
    /\ client = NewClient
    /\ conn = [c \in Conns |-> NoConn]
    /\ rooms = [k \in Codes |-> NoRoom]
    /\ navTimers = [c \in Conns |-> 0]
    /\ sent = <<>>
    /\ last = Step("init", 0, Null, Null)
    /\ barrier = [k \in Codes |-> NoBarrier]
    /\ orphans = [k \in Codes |-> NoOrphans]

\* ------------------------------------------------------------- actions
\* wss.on('connection'): connections are numbered in arrival order.
Connect(c) ==
    /\ conn[c].st = "new"
    /\ UNCHANGED client
    /\ \A d \in Conns : d < c => conn[d].st # "new"
    /\ conn' = [conn EXCEPT ![c] = NewClientData]
    /\ sent' = <<>>
    /\ last' = Step("connect", c, Null, Null)
    /\ UNCHANGED <<rooms, navTimers, barrier, orphans>>

\* A connection whose messages the server can still receive.
CanSend(c) == conn[c].st \in {"open", "closing"}

\* Mutation: generateRoomCode returns a code without looking it up.
AnyCodes(codes) == codes

\* generateRoomCode: a code of the alphabet sample that is not in the registry.
FreeCodes(codes) == {k \in codes : ~rooms[k].live}

\* handleCreateRoom; codes is the sample generateRoomCode draws from.
CreateRoom(c, uname, codes) ==
    /\ CanSend(c)
    /\ UNCHANGED client
    /\ \E code \in FreeCodes(codes) :
        LET username == NameOr(uname, "Host")
            cs == [conn EXCEPT ![c].roomCode = code, ![c].username = username,
                               ![c].isHost = TRUE]
        IN  /\ rooms' = [rooms EXCEPT ![code] = NewRoom(c)]
            /\ conn' = cs
            /\ sent' = SendToClient(cs, c, "ROOM_CREATED", code,
                                    [roomCode |-> code, participants |-> 1])
            /\ last' = Step("CREATE_ROOM", c, code, username)
            /\ barrier' = [barrier EXCEPT ![code] = NoBarrier]
    /\ UNCHANGED <<navTimers, orphans>>

\* The pendingDisconnects entries of a username (at most one).
PendingOf(room, username) == {e \in room.pending : e.username = username}

\* handleJoinRoom, lines 239-250: the other sessions holding the username.
DuplicateSessions(room, c, username) ==
    {x \in SeqToSet(room.clients) : conn[x].username = username /\ x # c}

\* handleJoinRoom, lines 232-236 and 254-256: the joiner's isHost.
JoinIsHost(cd, isReconnection, wasHost) ==
    IF isReconnection THEN (IF wasHost THEN TRUE ELSE cd.isHost) ELSE FALSE

\* handleJoinRoom, lines 233-236: room.host after the join.
JoinHost(room, c, isReconnection, wasHost) ==
    IF isReconnection /\ wasHost THEN c ELSE room.host

\* Mutation: a reconnection is announced like a fresh join.
JoinNotifiesAlways(isReconnection) == TRUE

\* handleJoinRoom, line 274: others are told of the join.
JoinNotifies(isReconnection) == ~isReconnection

\* Mutation: a JOIN_ROOM that finds no room is dropped without an answer.
RoomNotFoundSilent(cs, c) == <<>>

\* handleJoinRoom, lines 208-213: the answer when rooms.get finds no room.
RoomNotFound(cs, c) ==
    SendToClient(cs, c, "ROOM_ERROR", Null, [message |-> "Room not found"])

\* handleJoinRoom
\* Mutation: the joiner is never sent the stored videoState.
JoinSyncNever(cs, c, roomCode, room) == <<>>

\* handleJoinRoom, lines 282-284: if (room.videoState) SYNC to the joiner.
JoinSync(cs, c, roomCode, room) ==
    IF room.videoState.set
    THEN SendToClient(cs, c, "SYNC", roomCode, room.videoState)
    ELSE <<>>

JoinRoom(c, codeIn, uname) ==
    /\ CanSend(c)
    /\ UNCHANGED client
    /\ UNCHANGED <<navTimers, orphans>>
    /\ LET roomCode == ToUpperCase(codeIn)
           username == NameOr(uname, "Guest")
       IN
       IF roomCode \notin Codes \/ ~rooms[roomCode].live
       THEN /\ sent' = RoomNotFound(conn, c)
            /\ last' = Step("JOIN_ERROR", c, Null, username)
            /\ UNCHANGED <<conn, rooms, barrier>>
       ELSE
         LET room == rooms[roomCode]
             pend == PendingOf(room, username)
             isReconnection == pend # {}
             wasHost == \E e \in pend : e.wasHost
             dups == DuplicateSessions(room, c, username)
             clients1 == MapSet(RemoveAll(room.clients, dups), c)
             cs == [x \in Conns |->
                      IF x = c
                      THEN [conn[x] EXCEPT
                              !.roomCode = roomCode, !.username = username,
                              !.isHost = JoinIsHost(conn[c], isReconnection, wasHost)]
                      ELSE IF x \in dups /\ conn[x].st = "open"
                      THEN [conn[x] EXCEPT !.st = "closing"]
                      ELSE conn[x]]
             room1 == [room EXCEPT
                         !.deleteTimeout = FALSE,
                         !.pending = room.pending \ pend,
                         !.host = JoinHost(room, c, isReconnection, wasHost),
                         !.clients = clients1]
             participantCount == EffectiveParticipants(room1)
         IN  /\ conn' = cs
             /\ rooms' = [rooms EXCEPT ![roomCode] = room1]
             /\ sent' =
                  SendToClient(cs, c, "ROOM_JOINED", roomCode,
                      [roomCode |-> roomCode, participants |-> participantCount,
                       currentUrl |-> room.currentUrl,
                       isReconnection |-> isReconnection])
                  \o (IF JoinNotifies(isReconnection)
                      THEN SendEach(cs, clients1, "USER_JOINED", roomCode,
                               [username |-> username,
                                participants |-> participantCount], c)
                      ELSE <<>>)
                  \o JoinSync(cs, c, roomCode, room)
             /\ last' = Step(IF isReconnection THEN "JOIN_RECONNECT" ELSE "JOIN_ROOM",
                             c, roomCode, username)
             /\ UNCHANGED barrier

\* handleLeaveRoom, lines 311-320: another session holds the username.
HasReconnected(clients1, username) ==
    \E x \in SeqToSet(clients1) : conn[x].username = username

\* handleLeaveRoom, lines 366-372 and 431-437: when the departed clientData
\* has isHost and clients remain, the first client of the map becomes host.
ElectsHost(cs, c, clients) == cs[c].isHost /\ Len(clients) > 0

\* The connection table after the election.
WithNewHost(cs, c, clients) ==
    IF ElectsHost(cs, c, clients)
    THEN [cs EXCEPT ![Head(clients)].isHost = TRUE]
    ELSE cs

\* room.host after the election.
HostAfter(cs, c, room, clients) ==
    IF ElectsHost(cs, c, clients) THEN Head(clients) ELSE room.host

\* handleLeaveRoom, lines 392-396: the pendingDisconnects entry; c is the
\* clientData the grace timer's closure reads at expiry.
PendingEntry(cs, c, username) ==
    [username |-> username, wasHost |-> cs[c].isHost, c |-> c]

\* Mutation: an explicit leave never arms the deletion timer.
ArmsDeletionNever(participantCount) == FALSE

\* handleLeaveRoom, line 411: the last participant left explicitly.
ArmsDeletion(participantCount) == participantCount = 0

\* handleLeaveRoom(clientData, isExplicitLeave) on connection table cs.
\* Mutation: a session missing from the clients map is handled like a member.
AlreadyRemovedNever(room, c) == FALSE

\* handleLeaveRoom, lines 297-306: room.clients.get(ws) finds nothing.
AlreadyRemoved(room, c) == c \notin SeqToSet(room.clients)

HandleLeaveRoom(cs, c, isExplicitLeave, op) ==
    LET roomCode == cs[c].roomCode
        username == cs[c].username
    IN
    IF roomCode = Null \/ ~rooms[roomCode].live
    THEN /\ conn' = cs
         /\ sent' = <<>>
         /\ last' = Step(op, c, Null, username)
         /\ UNCHANGED rooms
    ELSE
      LET room == rooms[roomCode]
          clients1 == RemoveFrom(room.clients, c)
      IN
      IF AlreadyRemoved(room, c) \/ HasReconnected(clients1, username)
      THEN \* already replaced, or the old session of a reconnected user
           /\ conn' = [cs EXCEPT ![c] = ClearClient(cs[c])]
           /\ rooms' = [rooms EXCEPT ![roomCode].clients = clients1]
           /\ sent' = <<>>
           /\ last' = Step(op, c, roomCode, username)
      ELSE IF ~isExplicitLeave /\ username # Null
      THEN \* grace period: the timer of an older entry is cleared
           /\ rooms' = [rooms EXCEPT
                 ![roomCode].clients = clients1,
                 ![roomCode].pending =
                     (room.pending \ PendingOf(room, username))
                         \cup {PendingEntry(cs, c, username)}]
           /\ conn' = [cs EXCEPT ![c] = ClearClient(cs[c])]
           /\ sent' = <<>>
           /\ last' = Step(op, c, roomCode, username)
      ELSE \* explicit leave
        LET participantCount == Len(clients1) + Cardinality(room.pending)
            pending1 == room.pending \ PendingOf(room, username)
        IN
        IF ArmsDeletion(participantCount)
        THEN /\ rooms' = [rooms EXCEPT
                   ![roomCode].clients = clients1,
                   ![roomCode].pending = pending1,
                   ![roomCode].deleteTimeout = TRUE]
             /\ conn' = [cs EXCEPT ![c] = ClearClient(cs[c])]
             /\ sent' = <<>>
             /\ last' = Step(op, c, roomCode, username)
        ELSE /\ rooms' = [rooms EXCEPT
                   ![roomCode].clients = clients1,
                   ![roomCode].pending = pending1,
                   ![roomCode].host = HostAfter(cs, c, room, clients1)]
             /\ conn' = [WithNewHost(cs, c, clients1) EXCEPT
                            ![c] = ClearClient(cs[c])]
             /\ sent' = SendEach(cs, clients1, "USER_LEFT", roomCode,
                            [username |-> username,
                             participants |-> participantCount], 0)
             /\ last' = Step(op, c, roomCode, username)

\* case 'LEAVE_ROOM': handleLeaveRoom(clientData, true)
LeaveRoom(c) ==
    /\ CanSend(c)
    /\ UNCHANGED client
    /\ HandleLeaveRoom(conn, c, TRUE, "LEAVE_ROOM")
    /\ UNCHANGED <<navTimers, barrier, orphans>>

\* A socket whose close event is still to come.
CanClose(c) == conn[c].st \in {"open", "closing", "terminated"}

\* ws.on('close'): the socket is closed, then handleDisconnect runs.
OnClose(c) ==
    /\ CanClose(c)
    /\ UNCHANGED client
    /\ HandleLeaveRoom([conn EXCEPT ![c].st = "closed"], c, FALSE, "close")
    /\ UNCHANGED <<navTimers, barrier, orphans>>

\* Mutation: the expiry broadcast skips the room's host.
GraceTimerSendsButHost(room, code, username, participants) ==
    SendEach(conn, room.clients, "USER_LEFT", code,
             [username |-> username, participants |-> participants], room.host)

\* Grace timer callback, lines 358-364: USER_LEFT to every client, no exclusion.
GraceTimerSends(room, code, username, participants) ==
    SendEach(conn, room.clients, "USER_LEFT", code,
             [username |-> username, participants |-> participants], 0)

\* The grace timer callback of handleLeaveRoom, lines 349-390, for entry e.
GraceTimer(code, e) ==
    /\ rooms[code].live
    /\ UNCHANGED client
    /\ e \in rooms[code].pending
    /\ LET room == rooms[code]
           pending1 == room.pending \ {e}
           effectiveParticipants == Len(room.clients) + Cardinality(pending1)
       IN  /\ rooms' = [rooms EXCEPT
                 ![code].pending = pending1,
                 ![code].host = HostAfter(conn, e.c, room, room.clients),
                 ![code].deleteTimeout =
                     IF Len(room.clients) = 0 /\ pending1 = {}
                     THEN TRUE ELSE room.deleteTimeout]
           /\ conn' = WithNewHost(conn, e.c, room.clients)
           /\ sent' = GraceTimerSends(room, code, e.username,
                                       effectiveParticipants)
           /\ last' = Step("graceTimer", e.c, code, e.username)
    /\ UNCHANGED <<navTimers, barrier, orphans>>

\* Mutation: the deletion timer ignores pendingDisconnects.
RoomIsEmptyOfClients(room) == Len(room.clients) = 0

\* Lines 382 and 418: the deletion timer's test on the room its code names.
RoomIsEmpty(room) == Len(room.clients) = 0 /\ room.pending = {}

\* The deletion timer callback, lines 379-387 and 415-423.
DeleteTimer(code) ==
    /\ rooms[code].live
    /\ UNCHANGED client
    /\ rooms[code].deleteTimeout
    /\ rooms' = [rooms EXCEPT ![code] =
          IF RoomIsEmpty(rooms[code])
          THEN NoRoom
          ELSE [rooms[code] EXCEPT !.deleteTimeout = FALSE]]
    /\ sent' = <<>>
    /\ last' = Step("deleteTimer", 0, code, Null)
    /\ UNCHANGED <<conn, navTimers, barrier, orphans>>

\* Four hours have passed since the room's createdAt.
FourHoursPass(code) ==
    /\ rooms[code].live
    /\ UNCHANGED client
    /\ ~rooms[code].stale
    /\ rooms' = [rooms EXCEPT ![code].stale = TRUE]
    /\ sent' = <<>>
    /\ last' = Step("age", 0, code, Null)
    /\ UNCHANGED <<conn, navTimers, barrier, orphans>>

\* Mutation: the sweep spares a room with a pending disconnect or an armed
\* deletion timer.
IsStaleAndIdle(room) ==
    room.stale /\ Len(room.clients) = 0 /\ room.pending = {}
        /\ ~room.deleteTimeout

\* Stale sweep, line 730: the room is old and its clients map is empty.
IsStale(room) == room.stale /\ Len(room.clients) = 0

\* The hourly sweep, lines 725-735, over every room of the registry (a tick
\* that finds no room older than 4 hours is left out).  The grace timers
\* and the deletion timer of a deleted room object stay armed; they have
\* all fired long before a later room under the same code is 4 hours old,
\* so one room object per code has such timers at a time.
Sweep ==
    LET swept == {k \in Codes : rooms[k].live /\ IsStale(rooms[k])}
    IN  /\ \E k \in Codes : rooms[k].live /\ rooms[k].stale
        /\ \A k \in swept : orphans[k] = NoOrphans
        /\ rooms' = [k \in Codes |-> IF k \in swept THEN NoRoom ELSE rooms[k]]
        /\ orphans' = [k \in Codes |->
              IF k \in swept
              THEN [grace |-> Cardinality(rooms[k].pending),
                    del |-> rooms[k].deleteTimeout]
              ELSE orphans[k]]
        /\ sent' = <<>>
        /\ last' = Step("sweep", 0, Null, Null)
        /\ UNCHANGED <<conn, navTimers, barrier, client>>

\* A grace timer (lines 349-390) of a room object the sweep deleted: its
\* clients map is empty, so nothing is broadcast and no host is elected;
\* the last entry to expire arms that object's deletion timer.
OrphanGraceTimer(code) ==
    /\ orphans[code].grace > 0
    /\ UNCHANGED client
    /\ orphans' = [orphans EXCEPT ![code] =
          [grace |-> orphans[code].grace - 1,
           del |-> orphans[code].del \/ orphans[code].grace = 1]]
    /\ sent' = <<>>
    /\ last' = Step("orphanGraceTimer", 0, code, Null)
    /\ UNCHANGED <<conn, rooms, navTimers, barrier>>

\* A deletion timer (lines 379-387, 415-423) of a room object that has left
\* the registry: it tests and deletes the room now under its code, whose
\* own deletion timer stays armed.
OrphanDeleteTimer(code) ==
    /\ orphans[code].del
    /\ UNCHANGED client
    /\ IF rooms[code].live /\ RoomIsEmpty(rooms[code])
       THEN /\ rooms' = [rooms EXCEPT ![code] = NoRoom]
            /\ orphans' = [orphans EXCEPT ![code].del = rooms[code].deleteTimeout]
       ELSE /\ orphans' = [orphans EXCEPT ![code].del = FALSE]
            /\ UNCHANGED rooms
    /\ sent' = <<>>
    /\ last' = Step("orphanDeleteTimer", 0, code, Null)
    /\ UNCHANGED <<conn, navTimers, barrier>>

\* clientData.currentUrl || room.currentUrl (Null stands for a falsy URL).
EffectiveUrl(cd, room) == IF cd.currentUrl # Null THEN cd.currentUrl ELSE room.currentUrl

\* Mutation: the URL partition is dropped from the relay.
RelayAllowedAnyUrl(cs, room, c, x) ==
    x # c /\ IsOpen(cs, x) /\ ~cs[x].isNavigating

\* handleVideoControl lines 488-501, handleSync lines 539-550: the relay
\* reaches x when x is another OPEN client, is not navigating, and its
\* effective URL equals the sender's or one of the two is unknown.
RelayAllowed(cs, room, c, x) ==
    /\ x # c
    /\ IsOpen(cs, x)
    /\ ~cs[x].isNavigating
    /\ LET senderUrl == EffectiveUrl(cs[c], room)
           clientUrl == EffectiveUrl(cs[x], room)
       IN  ~(senderUrl # Null /\ clientUrl # Null /\ senderUrl # clientUrl)

\* The relay of handleVideoControl and handleSync, in clients order.
Relay(cs, room, code, c, type, p) ==
    LET tgt == SelectSeq(room.clients, LAMBDA x: RelayAllowed(cs, room, c, x))
    IN  [i \in 1..Len(tgt) |-> Msg(tgt[i], type, code, p)]

\* Mutation: isPlaying is derived from the command type alone.
DeriveIsPlayingFromType(type, flag) == type = "PLAY"

\* handleVideoControl lines 468-476: isPlaying of a PLAY, PAUSE, SEEK, BUFFER.
DeriveIsPlaying(type, flag) ==
    CASE type = "SEEK" -> flag
      [] type = "BUFFER" -> ~flag
      [] OTHER -> type = "PLAY"

ControlTypes == {"PLAY", "PAUSE", "SEEK", "BUFFER"}

\* The payload relayed by handleVideoControl: isBuffering is undefined (and
\* dropped by JSON.stringify) unless the command is BUFFER.
ControlPayload(type, t, isPlaying, flag, username) ==
    IF type = "BUFFER"
    THEN [currentTime |-> t, isPlaying |-> isPlaying, isBuffering |-> flag,
          username |-> username]
    ELSE [currentTime |-> t, isPlaying |-> isPlaying, username |-> username]

\* The guards shared by the room handlers: roomCode set and room in registry.
InRoom(c) == conn[c].roomCode # Null /\ rooms[conn[c].roomCode].live

\* A handler that returns early: nothing changes, nothing is sent.
Ignored(op, c) ==
    /\ sent' = <<>>
    /\ last' = Step(op, c, Null, conn[c].username)
    /\ UNCHANGED <<conn, rooms, navTimers, barrier, orphans>>

\* Mutation: commands of a navigating sender are handled.
SenderNavigatingNever(cd) == FALSE

\* if (clientData.isNavigating) return;  (handleVideoControl, handleSync)
SenderNavigating(cd) == cd.isNavigating

\* handleVideoControl; flag is payload.isPlaying of a SEEK and
\* payload.isBuffering of a BUFFER.
VideoControl(c, type, t, flag) ==
    /\ CanSend(c)
    /\ UNCHANGED client
    /\ IF ~InRoom(c) \/ SenderNavigating(conn[c])
       THEN Ignored("CONTROL_IGNORED", c)
       ELSE LET code == conn[c].roomCode
                room == rooms[code]
                isPlaying == DeriveIsPlaying(type, flag)
                room1 == [room EXCEPT !.videoState =
                            [set |-> TRUE, currentTime |-> t,
                             isPlaying |-> isPlaying, playbackRate |-> 0]]
            IN  /\ rooms' = [rooms EXCEPT ![code] = room1]
                /\ sent' = Relay(conn, room1, code, c, type,
                              ControlPayload(type, t, isPlaying, flag,
                                             conn[c].username))
                /\ last' = Step(type, c, code, conn[c].username)
                /\ UNCHANGED <<conn, navTimers, barrier, orphans>>

\* payload.playbackRate || 1 (0 stands for an absent rate).
RateOr1(r) == IF r = 0 THEN 1 ELSE r

\* handleSync
Sync(c, t, isPlaying, rate) ==
    /\ CanSend(c)
    /\ UNCHANGED client
    /\ IF ~InRoom(c) \/ SenderNavigating(conn[c])
       THEN Ignored("SYNC_IGNORED", c)
       ELSE LET code == conn[c].roomCode
                room == rooms[code]
                room1 == [room EXCEPT !.videoState =
                            [set |-> TRUE, currentTime |-> t,
                             isPlaying |-> isPlaying,
                             playbackRate |-> RateOr1(rate)]]
            IN  /\ rooms' = [rooms EXCEPT ![code] = room1]
                /\ sent' = Relay(conn, room1, code, c, "SYNC", room1.videoState)
                /\ last' = Step("SYNC", c, code, conn[c].username)
                /\ UNCHANGED <<conn, navTimers, barrier, orphans>>

\* Mutation: the request is broadcast to the other clients of the room.
SyncRequestToOthers(cs, room, code, c) ==
    SendEach(cs, room.clients, "SYNC_REQUEST", code,
             [requestedBy |-> cs[c].username], c)

\* handleSyncRequest, lines 567-571: to room.host when that socket is OPEN.
SyncRequestToHost(cs, room, code, c) ==
    SendToClient(cs, room.host, "SYNC_REQUEST", code,
                 [requestedBy |-> cs[c].username])

\* handleSyncRequest: forwarded to room.host when that socket is OPEN.
SyncRequest(c) ==
    /\ CanSend(c)
    /\ UNCHANGED client
    /\ IF ~InRoom(c)
       THEN Ignored("SYNC_REQUEST_IGNORED", c)
       ELSE LET code == conn[c].roomCode
            IN  /\ sent' = SyncRequestToHost(conn, rooms[code], code, c)
                /\ last' = Step("SYNC_REQUEST", c, code, conn[c].username)
                /\ UNCHANGED <<conn, rooms, navTimers, barrier, orphans>>

\* handleChat: broadcastToRoom to all but the sender; name is payload.username.
Chat(c, name) ==
    /\ CanSend(c)
    /\ UNCHANGED client
    /\ IF conn[c].roomCode = Null
       THEN Ignored("CHAT_IGNORED", c)
       ELSE LET code == conn[c].roomCode
            IN  /\ sent' = BroadcastToRoom(conn, rooms, code, "CHAT",
                              [username |-> NameOr(name, conn[c].username)], c)
                /\ last' = Step("CHAT", c, code, conn[c].username)
                /\ UNCHANGED <<conn, rooms, navTimers, barrier, orphans>>

\* payload.currentTime || 0 (NoTime stands for an absent time).
TimeOr0(t) == IF t = NoTime THEN 0 ELSE t

\* Mutation: a URL_CHANGE leaves every isReady flag as it is.
MarkNotReadyNone(cs, clients) == cs

\* handleUrlChange lines 611-615: every client of the room is not ready.
MarkNotReady(cs, clients) ==
    [x \in Conns |-> IF x \in SeqToSet(clients)
                     THEN [cs[x] EXCEPT !.isReady = FALSE] ELSE cs[x]]

\* The usernames a room counts as participants: clients and grace entries.
Participants(cs, room) ==
    {cs[x].username : x \in SeqToSet(room.clients)}
        \cup {e.username : e \in room.pending}

\* handleUrlChange; a new auto-clear timer is armed, none is cancelled.
UrlChange(c, url, t) ==
    /\ CanSend(c)
    /\ UNCHANGED client
    /\ IF ~InRoom(c)
       THEN Ignored("URL_CHANGE_IGNORED", c)
       ELSE /\ navTimers[c] < MaxNavTimers
            /\ LET code == conn[c].roomCode
                   room == rooms[code]
                   cs1 == [conn EXCEPT ![c].isNavigating = TRUE,
                                       ![c].currentUrl = url]
                   cs == MarkNotReady(cs1, room.clients)
                   syncTime == TimeOr0(t)
               IN  /\ conn' = cs
                   /\ navTimers' = [navTimers EXCEPT ![c] = @ + 1]
                   /\ rooms' = [rooms EXCEPT
                         ![code].currentUrl = url,
                         ![code].pendingSyncTime = syncTime,
                         ![code].pendingSyncUser = conn[c].username]
                   /\ sent' = SendEach(cs, room.clients, "URL_CHANGE", code,
                                 [url |-> url, username |-> conn[c].username,
                                  syncTime |-> syncTime], c)
                   /\ last' = Step("URL_CHANGE", c, code, conn[c].username)
                   /\ barrier' = [barrier EXCEPT ![code] =
                         [active |-> TRUE, users |-> Participants(conn, room),
                          ready |-> {}, released |-> FALSE, time |-> syncTime]]
                   /\ UNCHANGED orphans

\* The auto-clear timer of handleUrlChange, lines 605-607.
NavTimer(c) ==
    /\ navTimers[c] > 0
    /\ UNCHANGED client
    /\ navTimers' = [navTimers EXCEPT ![c] = @ - 1]
    /\ conn' = [conn EXCEPT ![c].isNavigating = FALSE]
    /\ sent' = <<>>
    /\ last' = Step("navTimer", c, Null, conn[c].username)
    /\ UNCHANGED <<rooms, barrier, orphans>>

\* handleVideoReady lines 647-658: the ready clients of the map.
ReadyCount(cs, clients) ==
    Cardinality({x \in SeqToSet(clients) : cs[x].isReady})

\* Mutation: the loop never clears allReady.
AllReadyUnchecked(cs, clients) == Len(clients) > 0

\* handleVideoReady line 662: allReady && totalCount > 0.
AllReady(cs, clients) ==
    (\A x \in SeqToSet(clients) : cs[x].isReady) /\ Len(clients) > 0

\* room.pendingSyncTime || 0
SyncTimeOf(room) == IF room.pendingSyncTime = NoTime THEN 0 ELSE room.pendingSyncTime

\* handleVideoReady
VideoReady(c) ==
    /\ CanSend(c)
    /\ UNCHANGED client
    /\ IF ~InRoom(c)
       THEN Ignored("VIDEO_READY_IGNORED", c)
       ELSE LET code == conn[c].roomCode
                room == rooms[code]
                cs == [conn EXCEPT ![c].isReady = TRUE,
                                   ![c].currentUrl = room.currentUrl]
                readyCount == ReadyCount(cs, room.clients)
                totalCount == Len(room.clients)
                fires == AllReady(cs, room.clients)
            IN  /\ conn' = cs
                /\ rooms' = IF fires
                            THEN [rooms EXCEPT ![code].pendingSyncTime = NoTime,
                                               ![code].pendingSyncUser = Null]
                            ELSE rooms
                /\ sent' = IF fires
                           THEN SendEach(cs, room.clients, "ALL_READY", code,
                                    [currentTime |-> SyncTimeOf(room),
                                     participants |-> totalCount], 0)
                           ELSE SendEach(cs, room.clients, "WAITING_FOR_OTHERS",
                                    code, [ready |-> readyCount,
                                           total |-> totalCount], 0)
                /\ last' = Step("VIDEO_READY", c, code, conn[c].username)
                /\ barrier' = [barrier EXCEPT
                      ![code].ready = @ \cup {conn[c].username},
                      ![code].released = @ \/ fires]
                /\ UNCHANGED <<navTimers, orphans>>

\* Mutation: FORCE_SYNC is relayed like a video command.
ForceSyncRelayed(cs, room, code, c, t) ==
    Relay(cs, room, code, c, "FORCE_SYNC",
          [currentTime |-> t, username |-> cs[c].username])

\* handleForceSync, lines 702-709: to every client whose socket is OPEN.
ForceSyncToAll(cs, room, code, c, t) ==
    SendEach(cs, room.clients, "FORCE_SYNC", code,
             [currentTime |-> t, username |-> cs[c].username], 0)

\* handleForceSync: sent to every OPEN client, the sender included.
ForceSync(c, t) ==
    /\ CanSend(c)
    /\ UNCHANGED client
    /\ IF ~InRoom(c)
       THEN Ignored("FORCE_SYNC_IGNORED", c)
       ELSE LET code == conn[c].roomCode
                room == rooms[code]
            IN  /\ sent' = ForceSyncToAll(conn, room, code, c, t)
                /\ rooms' = [rooms EXCEPT ![code].videoState =
                                [set |-> TRUE, currentTime |-> t,
                                 isPlaying |-> TRUE, playbackRate |-> 0]]
                /\ last' = Step("FORCE_SYNC", c, code, conn[c].username)
                /\ UNCHANGED <<conn, navTimers, barrier, orphans>>

\* Mutation: the socket is closed when handling a frame throws.
CaughtAndClosed(cs, c) == [cs EXCEPT ![c].st = "closing"]

\* ws.on('message'), lines 75-80: an exception of JSON.parse or of a handler
\* is caught and logged; the socket and the clientData are left as they are.
Caught(cs, c) == cs

\* A frame that is not JSON, or JSON with no type and payload to destructure
\* (line 113): JSON.parse or handleMessage throws.
MalformedFrame(c) ==
    /\ CanSend(c)
    /\ UNCHANGED client
    /\ conn' = Caught(conn, c)
    /\ sent' = <<>>
    /\ last' = Step("MALFORMED", c, Null, conn[c].username)
    /\ UNCHANGED <<rooms, navTimers, barrier, orphans>>

\* handleMessage, lines 161-162: the default branch logs the type.
UnknownType(c) ==
    /\ CanSend(c)
    /\ UNCHANGED client
    /\ sent' = <<>>
    /\ last' = Step("UNKNOWN_TYPE", c, Null, conn[c].username)
    /\ UNCHANGED <<conn, rooms, navTimers, barrier, orphans>>

\* The message types whose handler reads a field of its payload
\* (LEAVE_ROOM, SYNC_REQUEST and VIDEO_READY read none).
PayloadTypes ==
    {"CREATE_ROOM", "JOIN_ROOM", "CHAT", "URL_CHANGE", "FORCE_SYNC", "SYNC"}
        \cup ControlTypes

\* The handler returns before it reads its payload: no roomCode or no room
\* (lines 451-454, 517-520, 578, 593-596, 694-697), or a navigating sender
\* of a video command (lines 458, 523).
ReturnsEarly(c, type) ==
    CASE type \in {"CREATE_ROOM", "JOIN_ROOM"} -> FALSE
      [] type = "CHAT" -> conn[c].roomCode = Null
      [] type \in {"URL_CHANGE", "FORCE_SYNC"} -> ~InRoom(c)
      [] OTHER -> ~InRoom(c) \/ conn[c].isNavigating

\* A message of a type in PayloadTypes with no payload: the handler either
\* returns early or throws a TypeError at its first read of the payload
\* (lines 169, 203, 463, 530, 580, 598, 699), which comes before its first
\* write and its first send.
MissingPayload(c, type) ==
    /\ CanSend(c)
    /\ UNCHANGED client
    /\ conn' = IF ReturnsEarly(c, type) THEN conn ELSE Caught(conn, c)
    /\ sent' = <<>>
    /\ last' = Step("NO_PAYLOAD", c, Null, conn[c].username)
    /\ UNCHANGED <<rooms, navTimers, barrier, orphans>>

\* wss.clients: the sockets the server has not seen close.
InWssClients(cd) == cd.st \in {"open", "closing"}

\* Mutation: the heartbeat terminates no socket.
HeartbeatTerminatesNone(cd) == FALSE

\* if (ws.isAlive === false) return ws.terminate();
HeartbeatTerminates(cd) == ~cd.isAlive

\* The heartbeat interval: every socket of wss.clients is either terminated
\* or marked not alive and pinged.
Heartbeat ==
    /\ \E c \in Conns : InWssClients(conn[c])
    /\ UNCHANGED client
    /\ conn' = [c \in Conns |->
          IF ~InWssClients(conn[c]) THEN conn[c]
          ELSE IF HeartbeatTerminates(conn[c])
               THEN [conn[c] EXCEPT !.st = "terminated"]
               ELSE [conn[c] EXCEPT !.isAlive = FALSE, !.pingPending = TRUE]]
    /\ sent' = <<>>
    /\ last' = Step("heartbeat", 0, Null, Null)
    /\ UNCHANGED <<rooms, navTimers, barrier, orphans>>

\* ws.on('pong'): the peer answers the ping.
Pong(c) ==
    /\ CanSend(c)
    /\ UNCHANGED client
    /\ conn[c].pingPending
    /\ conn' = [conn EXCEPT ![c].isAlive = TRUE, ![c].pingPending = FALSE]
    /\ sent' = <<>>
    /\ last' = Step("pong", c, Null, conn[c].username)
    /\ UNCHANGED <<rooms, navTimers, barrier, orphans>>

\* ------------------------------------------------------------- client
\* Sockets created so far; the next connect() call creates the next one.
Created(cl) == {s \in Sockets : cl.socks[s].st # "none"}

NextSocket(cl) == Cardinality(Created(cl)) + 1

\* The start of a client step: what the last step wrote is forgotten.
Begin(cl) == [cl EXCEPT !.out = <<>>, !.threw = FALSE]

\* WebSocket.close(): a connecting socket fails (error, then close), an open
\* one starts the closing handshake, a closing or closed one is left alone.
CloseSocket(cl, s) ==
    [cl EXCEPT !.socks[s].st = IF @ = "connecting" THEN "failing"
                               ELSE IF @ = "open" THEN "closing" ELSE @]

\* send: false when not connected; ws.send throws on a CONNECTING socket and
\* discards the frame on a CLOSING or CLOSED one.
Send(cl, type, p) ==
    IF ~cl.isConnected \/ cl.ws = 0 THEN cl
    ELSE IF cl.socks[cl.ws].st = "connecting" THEN [cl EXCEPT !.threw = TRUE]
    ELSE IF cl.socks[cl.ws].st = "open"
         THEN [cl EXCEPT !.out = Append(@, [to |-> cl.ws, type |-> type, p |-> p])]
         ELSE cl

\* joinRoom: roomCode and username are stored before the send is tried.
JoinRoomCall(cl, code, user) ==
    LET name == IF user = Null THEN cl.username ELSE user
    IN  Send([cl EXCEPT !.roomCode = code, !.username = name],
             "JOIN_ROOM", [roomCode |-> code, username |-> name])

\* leaveRoom: roomCode is cleared after the send.
LeaveRoomCall(cl) ==
    LET r == Send(cl, "LEAVE_ROOM", [roomCode |-> cl.roomCode, username |-> Null])
    IN  IF r.threw THEN r ELSE [r EXCEPT !.roomCode = Null]

\* if (reconnectTimer) return
HasReconnectTimer(cl) == cl.reconnectTimer

\* scheduleReconnect, up to the setTimeout call.
ScheduleReconnect(cl) ==
    IF HasReconnectTimer(cl) THEN cl
    ELSE [cl EXCEPT !.reconnectAttempts = @ + 1,
                    !.reconnectTimer = TRUE,
                    !.timers = @ + 1]

\* The catch block of the reconnect timer's callback.
CatchReconnect(cl) ==
    IF cl.reconnectAttempts < MAX_RECONNECT_ATTEMPTS THEN ScheduleReconnect(cl) ELSE cl

\* The reconnect callback after its await resolves: rejoin the room; a throw
\* of joinRoom lands in the catch block.
ResumeReconnect(cl) ==
    IF cl.roomCode = Null THEN cl
    ELSE LET j == JoinRoomCall(cl, cl.roomCode, cl.username)
         IN  IF j.threw THEN CatchReconnect([j EXCEPT !.threw = FALSE]) ELSE j

\* resolve(true): a settled promise stays as it is; the reconnect callback
\* awaiting the promise of its connect() call resumes.
Resolve(cl, s) ==
    IF cl.socks[s].promise # "pending" THEN cl
    ELSE LET r == [cl EXCEPT !.socks[s].promise = "resolved"]
         IN  IF cl.socks[s].origin = "reconnect" THEN ResumeReconnect(r) ELSE r

\* reject(error): the reconnect callback awaiting the promise lands in catch.
Reject(cl, s) ==
    IF cl.socks[s].promise # "pending" THEN cl
    ELSE LET r == [cl EXCEPT !.socks[s].promise = "rejected"]
         IN  IF cl.socks[s].origin = "reconnect" THEN CatchReconnect(r) ELSE r

\* ws.onopen of the socket of connect() call s.
OnOpenHandler(cl, s) ==
    Resolve([cl EXCEPT !.isConnected = TRUE, !.reconnectAttempts = 0], s)

\* ws.onclose
OnCloseHandler(cl) ==
    LET c1 == [cl EXCEPT !.isConnected = FALSE]
    IN  IF c1.roomCode # Null /\ c1.reconnectAttempts < MAX_RECONNECT_ATTEMPTS
        THEN ScheduleReconnect(c1)
        ELSE c1

\* The body of connect(): a new socket, its handlers, its promise and its
\* 5-second timer; origin tells who awaits the promise.
ConnectCall(cl, origin) ==
    LET s == NextSocket(cl)
    IN  [cl EXCEPT !.ws = s,
                   !.socks[s] = [st |-> "connecting", promise |-> "pending",
                                 timeout |-> TRUE, origin |-> origin]]

\* The socket the timeout callback of connect() call s closes: the module's
\* ws at the time the timer fires.
TimeoutTarget(cl, s) == cl.ws

\* The page calls connect().
ClientConnect ==
    /\ NextSocket(client) <= MaxSockets
    /\ client' = [ConnectCall(Begin(client), "app")
                     EXCEPT !.disconnected = FALSE]
    /\ UNCHANGED serverVars

\* The connection of socket s is established.
WsOnOpen(s) ==
    /\ client.socks[s].st = "connecting"
    /\ client' = OnOpenHandler([Begin(client) EXCEPT !.socks[s].st = "open"], s)
    /\ UNCHANGED serverVars

\* The connection attempt of socket s fails, by itself or after close(): the
\* error event, the microtasks it leaves, then the close event.
WsOnError(s) ==
    /\ client.socks[s].st \in {"connecting", "failing"}
    /\ client' = OnCloseHandler(
                    Reject([Begin(client) EXCEPT !.socks[s].st = "closed"], s))
    /\ UNCHANGED serverVars

\* The established connection of socket s ends: the close event.
WsOnClose(s) ==
    /\ client.socks[s].st \in {"open", "closing"}
    /\ client' = OnCloseHandler([Begin(client) EXCEPT !.socks[s].st = "closed"])
    /\ UNCHANGED serverVars

\* The 5-second timer of connect() call s fires. With ws null, ws.close()
\* throws and reject is not reached.
ConnectionTimeout(s) ==
    /\ client.socks[s].timeout
    /\ client' =
          LET b == [Begin(client) EXCEPT !.socks[s].timeout = FALSE]
          IN  IF b.isConnected THEN b
              ELSE IF TimeoutTarget(b, s) = 0 THEN [b EXCEPT !.threw = TRUE]
              ELSE Reject(CloseSocket(b, TimeoutTarget(b, s)), s)
    /\ UNCHANGED serverVars

\* The reconnect timer fires: the callback up to its await.
ReconnectTimerFires ==
    /\ client.timers > 0
    /\ NextSocket(client) <= MaxSockets
    /\ client' = ConnectCall(
                    [Begin(client)
                        EXCEPT !.timers = @ - 1, !.reconnectTimer = FALSE],
                    "reconnect")
    /\ UNCHANGED serverVars

\* The page calls joinRoom(code, user).
ClientJoinRoom(code, user) ==
    /\ client' = JoinRoomCall(Begin(client), code, user)
    /\ UNCHANGED serverVars

\* The page calls leaveRoom().
ClientLeaveRoom ==
    /\ client' = LeaveRoomCall(Begin(client))
    /\ UNCHANGED serverVars

\* handleMessage of ROOM_CREATED or ROOM_JOINED on the open socket s.
HandleRoomMessage(s, code) ==
    /\ client.socks[s].st = "open"
    /\ client' = [Begin(client) EXCEPT !.roomCode = code]
    /\ UNCHANGED serverVars

\* The page calls disconnect(). A throw of leaveRoom's send ends the call
\* before ws.close().
ClientDisconnect ==
    /\ client' =
          LET b == Begin(client)
              c1 == IF b.reconnectTimer
                    THEN [b EXCEPT !.timers = @ - 1, !.reconnectTimer = FALSE]
                    ELSE b
              l == LeaveRoomCall(c1)
          IN  IF c1.ws = 0
              THEN [c1 EXCEPT !.isConnected = FALSE, !.roomCode = Null,
                              !.disconnected = TRUE]
              ELSE IF l.threw THEN l
              ELSE [CloseSocket(l, l.ws) EXCEPT !.ws = 0, !.isConnected = FALSE,
                                                !.roomCode = Null,
                                                !.disconnected = TRUE]
    /\ UNCHANGED serverVars

\* ------------------------------------------------------------- specifications
OneCode == {"AB23CD"}

\* The c-th connection sends one of the first c names, or no name (the
\* handler's default applies).

NameInputs(c) ==
    {NameOrder[i] : i \in 1..(IF c < Len(NameOrder) THEN c ELSE Len(NameOrder))}

\* The name of the c-th connection when each connection has one name.
NthName(c) == NameOrder[((c - 1) % Len(NameOrder)) + 1]

\* JOIN_ROOM payloads: a code and a name, a lower-case code with no name,
\* and a payload without a code.
JoinInputs(c) ==
    (Codes \X NameInputs(c)) \cup {<<"ab23cd", Null>>, <<Null, "Guest">>}

\* CREATE_ROOM payloads: a name, or none.
CreateInputs(c) == NameInputs(c) \cup {Null}

\* Room lifecycle: one room code in use.
Next ==
    \/ \E c \in Conns : Connect(c)
    \/ \E c \in Conns : \E u \in CreateInputs(c) : CreateRoom(c, u, OneCode)
    \/ \E c \in Conns : \E in \in JoinInputs(c) : JoinRoom(c, in[1], in[2])
    \/ \E c \in Conns : LeaveRoom(c)
    \/ \E c \in Conns : OnClose(c)
    \/ \E k \in Codes : \E e \in rooms[k].pending : GraceTimer(k, e)
    \/ \E k \in Codes : DeleteTimer(k)

Spec == Init /\ [][Next]_vars

\* A connection that is in no room (a client that joins once per connection).
Fresh(c) == conn[c].roomCode = Null

\* Grace period and reconnection: one room code; each connection creates or
\* joins once, under one of the names open to it, so the third connection
\* is a third user, a duplicate or a reconnection.
NextGrace ==
    \/ \E c \in Conns : Connect(c)
    \/ \E c \in Conns : Fresh(c) /\ CreateRoom(c, Null, OneCode)
    \/ \E c \in Conns : \E u \in NameInputs(c) : Fresh(c) /\ JoinRoom(c, "AB23CD", u)
    \/ \E c \in Conns : LeaveRoom(c)
    \/ \E c \in Conns : OnClose(c)
    \/ \E k \in Codes : \E e \in rooms[k].pending : GraceTimer(k, e)
    \/ \E k \in Codes : DeleteTimer(k)

SpecGrace == Init /\ [][NextGrace]_vars

\* Connections of the specifications below.
FewConns == 2

\* Two room codes in use, by the first FewConns connections.
NextTwoRooms ==
    \/ \E c \in 1..FewConns : Connect(c)
    \/ \E c \in Conns : \E u \in CreateInputs(c) : CreateRoom(c, u, Codes)
    \/ \E c \in Conns : \E in \in JoinInputs(c) : JoinRoom(c, in[1], in[2])
    \/ \E c \in Conns : LeaveRoom(c)
    \/ \E c \in Conns : OnClose(c)
    \/ \E k \in Codes : \E e \in rooms[k].pending : GraceTimer(k, e)
    \/ \E k \in Codes : DeleteTimer(k)

SpecTwoRooms == Init /\ [][NextTwoRooms]_vars

\* JOIN_ROOM payloads of the registry: the code in use under each name open
\* to the connection and in lower case with no name, a code that is never
\* created, and a payload without a code.
RegistryJoins(c) ==
    (OneCode \X NameInputs(c))
        \cup {<<"ab23cd", Null>>, <<"XY45ZW", NthName(c)>>, <<Null, "Guest">>}

\* The registry: one room code, the first FewConns connections, CREATE_ROOM
\* with and without a name and JOIN_ROOM at any time, leaves and closes,
\* the grace and deletion timers, the stale sweep and the timers it leaves
\* behind.
NextRegistry ==
    \/ \E c \in 1..FewConns : Connect(c)
    \/ \E c \in Conns : \E u \in {Null, NthName(c)} : CreateRoom(c, u, OneCode)
    \/ \E c \in Conns : \E in \in RegistryJoins(c) : JoinRoom(c, in[1], in[2])
    \/ \E c \in Conns : LeaveRoom(c)
    \/ \E c \in Conns : OnClose(c)
    \/ \E k \in Codes : \E e \in rooms[k].pending : GraceTimer(k, e)
    \/ \E k \in Codes : DeleteTimer(k)
    \/ \E k \in Codes : FourHoursPass(k)
    \/ Sweep
    \/ \E k \in Codes : OrphanGraceTimer(k)
    \/ \E k \in Codes : OrphanDeleteTimer(k)

SpecRegistry == Init /\ [][NextRegistry]_vars

\* The registry within four hours of a room's creation: no sweep.
NextDeletion ==
    \/ \E c \in 1..FewConns : Connect(c)
    \/ \E c \in Conns : \E u \in {Null, NthName(c)} : CreateRoom(c, u, OneCode)
    \/ \E c \in Conns : \E in \in RegistryJoins(c) : JoinRoom(c, in[1], in[2])
    \/ \E c \in Conns : LeaveRoom(c)
    \/ \E c \in Conns : OnClose(c)
    \/ \E k \in Codes : \E e \in rooms[k].pending : GraceTimer(k, e)
    \/ \E k \in Codes : DeleteTimer(k)

SpecDeletion == Init /\ [][NextDeletion]_vars

\* An armed deletion timer fires unless a JOIN_ROOM clears it first.
SpecDeletionFair ==
    SpecDeletion /\ \A k \in Codes : WF_vars(DeleteTimer(k))

\* URL_CHANGE payloads of the barrier: the largest time, or none.
TimeInputs == {MaxTime, NoTime}

\* The client sends URL_CHANGE once its previous auto-clear timer has fired.
Settled(c) == navTimers[c] = 0

\* Navigation barrier: one room code, one URL, the first FewConns
\* connections; each creates or joins once; closes, grace expiry,
\* URL_CHANGE and VIDEO_READY at any time.
NextBarrier ==
    \/ \E c \in 1..FewConns : Connect(c)
    \/ \E c \in Conns : Fresh(c) /\ CreateRoom(c, Null, OneCode)
    \/ \E c \in Conns : \E u \in NameInputs(c) : Fresh(c) /\ JoinRoom(c, "AB23CD", u)
    \/ \E c \in Conns : OnClose(c)
    \/ \E k \in Codes : \E e \in rooms[k].pending : GraceTimer(k, e)
    \/ \E c \in Conns, t \in TimeInputs : Settled(c) /\ UrlChange(c, "X", t)
    \/ \E c \in Conns : NavTimer(c)
    \/ \E c \in Conns : VideoReady(c)

SpecBarrier == Init /\ [][NextBarrier]_vars

\* Armed timers fire: the isNavigating auto-clear and the grace timers.
SpecBarrierFair ==
    SpecBarrier
        /\ \A c \in Conns : WF_vars(NavTimer(c))
        /\ \A k \in Codes :
              WF_vars(\E e \in rooms[k].pending : GraceTimer(k, e))

\* SEEK with isPlaying and BUFFER with isBuffering true and false; PLAY and
\* PAUSE read no flag.
ControlInputs ==
    {<<"PLAY", FALSE>>, <<"PAUSE", FALSE>>, <<"SEEK", TRUE>>, <<"SEEK", FALSE>>,
     <<"BUFFER", TRUE>>, <<"BUFFER", FALSE>>}

\* Relay of video commands: one room code, two URLs, the first FewConns
\* connections; the c-th connection joins once under the c-th name; SYNC
\* with and without a playbackRate.
NextRelay ==
    \/ \E c \in 1..FewConns : Connect(c)
    \/ \E c \in Conns : Fresh(c) /\ CreateRoom(c, Null, OneCode)
    \/ \E c \in Conns : Fresh(c) /\ JoinRoom(c, "AB23CD", NthName(c))
    \/ \E c \in Conns, url \in Urls : Settled(c) /\ UrlChange(c, url, NoTime)
    \/ \E c \in Conns : NavTimer(c)
    \/ \E c \in Conns : \E in \in ControlInputs :
          VideoControl(c, in[1], MaxTime, in[2])
    \/ \E c \in Conns : \E rate \in {0, 2} : Sync(c, 0, rate = 2, rate)

SpecRelay == Init /\ [][NextRelay]_vars

\* Two rooms side by side: both codes, the first FewConns connections, the
\* c-th under the c-th name; a session may create a room while it is in
\* one; closes, and the messages of a room in use, one payload each.
NextIsolation ==
    \/ \E c \in 1..FewConns : Connect(c)
    \/ \E c \in Conns : CreateRoom(c, NthName(c), Codes)
    \/ \E c \in Conns : \E k \in Codes : Fresh(c) /\ JoinRoom(c, k, NthName(c))
    \/ \E c \in Conns : OnClose(c)
    \/ \E c \in Conns : Settled(c) /\ UrlChange(c, "X", MaxTime)
    \/ \E c \in Conns : NavTimer(c)
    \/ \E c \in Conns : VideoReady(c)
    \/ \E c \in Conns : VideoControl(c, "PLAY", MaxTime, FALSE)
    \/ \E c \in Conns : SyncRequest(c)
    \/ \E c \in Conns : Chat(c, Null)
    \/ \E c \in Conns : ForceSync(c, MaxTime)

SpecIsolation == Init /\ [][NextIsolation]_vars

\* Frames the server drops: one room code, the first FewConns connections
\* creating or joining once, navigating and closing, and at any time a
\* frame that is not JSON, has an unknown type or has no payload.
NextFrames ==
    \/ \E c \in 1..FewConns : Connect(c)
    \/ \E c \in Conns : Fresh(c) /\ CreateRoom(c, Null, OneCode)
    \/ \E c \in Conns : Fresh(c) /\ JoinRoom(c, "AB23CD", NthName(c))
    \/ \E c \in Conns : OnClose(c)
    \/ \E c \in Conns : Settled(c) /\ UrlChange(c, "X", NoTime)
    \/ \E c \in Conns : NavTimer(c)
    \/ \E c \in Conns : MalformedFrame(c)
    \/ \E c \in Conns : UnknownType(c)
    \/ \E c \in Conns : \E type \in PayloadTypes : MissingPayload(c, type)

SpecFrames == Init /\ [][NextFrames]_vars

\* FORCE_SYNC and SYNC_REQUEST: one room code, two URLs, the first FewConns
\* connections creating or joining once, under their own name or the
\* host's (so a joiner may evict the host), closes, navigation, and
\* FORCE_SYNC with a currentTime.
NextSync ==
    \/ \E c \in 1..FewConns : Connect(c)
    \/ \E c \in Conns : Fresh(c) /\ CreateRoom(c, Null, OneCode)
    \/ \E c \in Conns : \E u \in {NthName(c), "Host"} :
          Fresh(c) /\ JoinRoom(c, "AB23CD", u)
    \/ \E c \in Conns : OnClose(c)
    \/ \E c \in Conns, url \in Urls : Settled(c) /\ UrlChange(c, url, NoTime)
    \/ \E c \in Conns : NavTimer(c)
    \/ \E c \in Conns : ForceSync(c, MaxTime)
    \/ \E c \in Conns : SyncRequest(c)

SpecSync == Init /\ [][NextSync]_vars

\* Heartbeat: one room code, each connection creating or joining once under
\* its own name, ticks, pongs, closes and grace timers.
NextHeartbeat ==
    \/ \E c \in Conns : Connect(c)
    \/ \E c \in Conns : Fresh(c) /\ CreateRoom(c, NthName(c), OneCode)
    \/ \E c \in Conns : Fresh(c) /\ JoinRoom(c, "AB23CD", NthName(c))
    \/ Heartbeat
    \/ \E c \in Conns : Pong(c)
    \/ \E c \in Conns : OnClose(c)
    \/ \E k \in Codes : \E e \in rooms[k].pending : GraceTimer(k, e)

SpecHeartbeat == Init /\ [][NextHeartbeat]_vars

\* The close event of a terminated socket is emitted.
SpecHeartbeatFair ==
    SpecHeartbeat
        /\ \A c \in Conns : WF_vars(conn[c].st = "terminated" /\ OnClose(c))

\* Navigation: one room code, two URLs, the first FewConns connections
\* creating or joining once, and URL_CHANGE messages that may arrive while
\* an earlier auto-clear timer of the sender is still pending.
NextNavigation ==
    \/ \E c \in 1..FewConns : Connect(c)
    \/ \E c \in Conns : Fresh(c) /\ CreateRoom(c, NthName(c), OneCode)
    \/ \E c \in Conns : Fresh(c) /\ JoinRoom(c, "AB23CD", NthName(c))
    \/ \E c \in Conns, url \in Urls : UrlChange(c, url, NoTime)
    \/ \E c \in Conns : NavTimer(c)
    \/ \E c \in Conns : VideoControl(c, "PLAY", MaxTime, FALSE)

SpecNavigation == Init /\ [][NextNavigation]_vars

\* URL changes: one room code, two URLs, the first FewConns connections
\* creating or joining once, closes, a PLAY, and URL_CHANGE messages with
\* and without a currentTime.
NextUrlChange ==
    \/ \E c \in 1..FewConns : Connect(c)
    \/ \E c \in Conns : Fresh(c) /\ CreateRoom(c, NthName(c), OneCode)
    \/ \E c \in Conns : Fresh(c) /\ JoinRoom(c, "AB23CD", NthName(c))
    \/ \E c \in Conns : OnClose(c)
    \/ \E c \in Conns, url \in Urls, t \in TimeInputs :
          Settled(c) /\ UrlChange(c, url, t)
    \/ \E c \in Conns : NavTimer(c)
    \/ \E c \in Conns : VideoControl(c, "PLAY", MaxTime, FALSE)

SpecUrlChange == Init /\ [][NextUrlChange]_vars

\* Every message type of a room in use: one room code, the first FewConns
\* connections creating or joining once under their own name, one URL.
NextEcho ==
    \/ \E c \in 1..FewConns : Connect(c)
    \/ \E c \in Conns : Fresh(c) /\ CreateRoom(c, NthName(c), OneCode)
    \/ \E c \in Conns : Fresh(c) /\ JoinRoom(c, "AB23CD", NthName(c))
    \/ \E c \in Conns : Settled(c) /\ UrlChange(c, "X", NoTime)
    \/ \E c \in Conns : NavTimer(c)
    \/ \E c \in Conns : VideoReady(c)
    \/ \E c \in Conns : \E in \in ControlInputs :
          VideoControl(c, in[1], MaxTime, in[2])
    \/ \E c \in Conns : Sync(c, MaxTime, TRUE, 0)
    \/ \E c \in Conns : Chat(c, Null)
    \/ \E c \in Conns : ForceSync(c, MaxTime)
    \/ \E c \in Conns : SyncRequest(c)

SpecEcho == Init /\ [][NextEcho]_vars

\* The stale sweep over two rooms: both codes, the first FewConns
\* connections creating or joining once under their own name, leaves and
\* closes, the grace and deletion timers, rooms growing old, the sweep and
\* the timers it leaves behind.
NextSweep ==
    \/ \E c \in 1..FewConns : Connect(c)
    \/ \E c \in Conns : Fresh(c) /\ CreateRoom(c, NthName(c), Codes)
    \/ \E c \in Conns : \E k \in Codes : Fresh(c) /\ JoinRoom(c, k, NthName(c))
    \/ \E c \in Conns : LeaveRoom(c)
    \/ \E c \in Conns : OnClose(c)
    \/ \E k \in Codes : \E e \in rooms[k].pending : GraceTimer(k, e)
    \/ \E k \in Codes : DeleteTimer(k)
    \/ \E k \in Codes : FourHoursPass(k)
    \/ Sweep
    \/ \E k \in Codes : OrphanGraceTimer(k)
    \/ \E k \in Codes : OrphanDeleteTimer(k)

SpecSweep == Init /\ [][NextSweep]_vars

\* The 5-second timer of a call has fired before the call TimeoutWindow + 1
\* calls later is made.
TimersDue ==
    \A s \in Sockets :
        s + TimeoutWindow < NextSocket(client) => ~client.socks[s].timeout

\* connect() calls the page has made.
PageConnects == Cardinality({s \in Sockets : client.socks[s].origin = "app"})

\* Another socket may be created.
MayConnect == NextSocket(client) <= FewSockets /\ TimersDue

\* The client alone: the page's calls at any time, the socket events, the
\* timers, the room messages of one room code.
NextClient ==
    \/ PageConnects < MaxPageConnects /\ MayConnect /\ ClientConnect
    \/ \E s \in Sockets : WsOnOpen(s)
    \/ \E s \in Sockets : WsOnError(s)
    \/ \E s \in Sockets : WsOnClose(s)
    \/ \E s \in Sockets : ConnectionTimeout(s)
    \/ MayConnect /\ ReconnectTimerFires
    \/ \E u \in ClientNames \cup {Null} : ClientJoinRoom("AB23CD", u)
    \/ ClientLeaveRoom
    \/ \E s \in Sockets : HandleRoomMessage(s, "AB23CD")
    \/ ClientDisconnect

SpecClient == Init /\ [][NextClient]_vars

\* ------------------------------------------------------------- properties
ClientsOf(k) == SeqToSet(rooms[k].clients)

OpenClientsOf(k) == {x \in ClientsOf(k) : IsOpen(conn, x)}

Types(msgs) == {msgs[i].type : i \in 1..Len(msgs)}

\* How many messages of a type, naming a username, a connection was sent.
CountTo(msgs, x, type, username) ==
    Cardinality({i \in 1..Len(msgs) :
        msgs[i].to = x /\ msgs[i].type = type /\ msgs[i].p.username = username})

\* C1: a JOIN_ROOM under a username that is in its grace period sends no
\* USER_LEFT and no USER_JOINED to anyone, answers the joiner ROOM_JOINED
\* with isReconnection = true, cancels the grace entry (so its timer sends
\* nothing later), and when the departed session was host makes the joiner
\* host: isHost is true and room.host refers to it.  The close that started
\* the grace period sent nothing either.
C1_ReconnectIsSilent ==
    [][ /\ last'.op = "JOIN_RECONNECT" =>
            LET k == last'.room
                c == last'.c
                pend == PendingOf(rooms[k], last'.user)
            IN  /\ pend # {}
                /\ Types(sent') \cap {"USER_LEFT", "USER_JOINED"} = {}
                /\ IsOpen(conn, c) =>
                     \E i \in 1..Len(sent') :
                        /\ sent'[i].to = c
                        /\ sent'[i].type = "ROOM_JOINED"
                        /\ sent'[i].p.isReconnection
                /\ PendingOf(rooms'[k], last'.user) = {}
                /\ (\E e \in pend : e.wasHost) =>
                     conn'[c].isHost /\ rooms'[k].host = c
        /\ last'.op = "JOIN_ROOM" => PendingOf(rooms[last'.room], last'.user) = {}
      ]_vars

C1_Witness ==
    /\ last.op = "JOIN_RECONNECT"
    /\ conn[last.c].isHost
    /\ rooms[last.room].host = last.c
    /\ \E x \in OpenClientsOf(last.room) : x # last.c
    /\ \E i \in 1..Len(sent) : sent[i].type = "ROOM_JOINED" /\ sent[i].p.isReconnection

\* C2: when the grace timer of a user who was host at the disconnect fires
\* and clients remain, one of them is host afterwards (its isHost is true
\* and room.host refers to it).
C2_GraceExpiryElectsHost ==
    [][ last'.op = "graceTimer" =>
            LET k == last'.room
                pend == PendingOf(rooms[k], last'.user)
            IN  ((\E e \in pend : e.wasHost) /\ Len(rooms[k].clients) > 0) =>
                    \E x \in SeqToSet(rooms'[k].clients) :
                        conn'[x].isHost /\ rooms'[k].host = x
      ]_vars

\* C3: a close sends nothing; the grace timer sends exactly one USER_LEFT
\* naming the departed user to every client with an open connection and
\* nothing else; no other step sends a USER_LEFT naming a user who is in
\* a grace period.
C3_OneUserLeftAtExpiry ==
    [][ /\ last'.op = "close" => sent' = <<>>
        /\ last'.op = "graceTimer" =>
             /\ \A x \in OpenClientsOf(last'.room) :
                   CountTo(sent', x, "USER_LEFT", last'.user) = 1
             /\ \A i \in 1..Len(sent') :
                   /\ sent'[i].type = "USER_LEFT"
                   /\ sent'[i].p.username = last'.user
                   /\ sent'[i].to \in OpenClientsOf(last'.room)
        /\ last'.op # "graceTimer" =>
             \A i \in 1..Len(sent') :
                sent'[i].type = "USER_LEFT" =>
                    PendingOf(rooms[sent'[i].room], sent'[i].p.username) = {}
      ]_vars

C3_Witness ==
    /\ last.op = "graceTimer"
    /\ Cardinality(OpenClientsOf(last.room)) >= 2
    /\ Len(sent) = Cardinality(OpenClientsOf(last.room))

\* C4: in every room with clients, room.host is one of the clients.
C4_HostIsClient ==
    \A k \in Codes :
        (rooms[k].live /\ Len(rooms[k].clients) > 0) =>
            rooms[k].host \in ClientsOf(k)

\* C5: no two sessions in a room's clients map hold the same username.
C5_UniqueUsernames ==
    \A k \in Codes :
        rooms[k].live =>
            \A x, y \in ClientsOf(k) :
                x # y => conn[x].username # conn[y].username

\* The last step broadcast ALL_READY in its room.
FiredAllReady == last.op = "VIDEO_READY" /\ "ALL_READY" \in Types(sent)

\* C6: after a URL_CHANGE, ALL_READY is broadcast only when every user who
\* was a participant at the URL_CHANGE (connected or in its grace period)
\* and still is one has sent VIDEO_READY since that URL_CHANGE.
C6_BarrierWaitsForAll ==
    (FiredAllReady /\ barrier[last.room].active) =>
        \A u \in barrier[last.room].users :
            u \in Participants(conn, rooms[last.room]) =>
                u \in barrier[last.room].ready

\* C7: after a VIDEO_READY has marked its sender ready, ALL_READY goes out
\* exactly when clients is non-empty and every session in it has isReady;
\* otherwise every client with an open connection is sent one
\* WAITING_FOR_OTHERS whose ready is the number of ready sessions and whose
\* total is the size of clients, and nothing else is sent.
C7_ReadyDecision ==
    last.op = "VIDEO_READY" =>
        LET k == last.room
            clients == ClientsOf(k)
            everyReady == clients # {} /\ \A x \in clients : conn[x].isReady
            nReady == Cardinality({x \in clients : conn[x].isReady})
        IN  /\ "ALL_READY" \in Types(sent) => everyReady
            /\ (everyReady /\ OpenClientsOf(k) # {}) => Types(sent) = {"ALL_READY"}
            /\ ~everyReady =>
                 /\ \A x \in OpenClientsOf(k) :
                       Cardinality({i \in 1..Len(sent) : sent[i].to = x}) = 1
                 /\ \A i \in 1..Len(sent) :
                       /\ sent[i].type = "WAITING_FOR_OTHERS"
                       /\ sent[i].to \in OpenClientsOf(k)
                       /\ sent[i].p.ready = nReady
                       /\ sent[i].p.total = Cardinality(clients)

\* A VIDEO_READY was answered WAITING_FOR_OTHERS: another session is not ready.
C7_Witness ==
    /\ last.op = "VIDEO_READY"
    /\ Cardinality(ClientsOf(last.room)) >= 2
    /\ conn[last.c].isReady
    /\ \E x \in OpenClientsOf(last.room) : ~conn[x].isReady
    /\ \E i \in 1..Len(sent) :
          /\ sent[i].type = "WAITING_FOR_OTHERS"
          /\ sent[i].p.ready >= 1
          /\ sent[i].p.total = Cardinality(ClientsOf(last.room))

\* C8: once ALL_READY has been broadcast for a navigation barrier, a
\* further VIDEO_READY with no URL_CHANGE in between broadcasts no ALL_READY.
C8_AllReadyOnce ==
    [][ (last'.op = "VIDEO_READY"
           /\ barrier[last'.room].active
           /\ barrier[last'.room].released)
        => "ALL_READY" \notin Types(sent') ]_vars

\* C9: every ALL_READY of a room that had a URL_CHANGE carries the
\* currentTime of the latest URL_CHANGE and participants = |clients|, reaches
\* every client with an open connection, and leaves pendingSyncTime and
\* pendingSyncUser cleared.
C9_AllReadyPayload ==
    (FiredAllReady /\ barrier[last.room].active) =>
        LET k == last.room
        IN  /\ \A i \in 1..Len(sent) :
                  /\ sent[i].p.currentTime = barrier[k].time
                  /\ sent[i].p.participants = Cardinality(ClientsOf(k))
            /\ \A x \in OpenClientsOf(k) : \E i \in 1..Len(sent) : sent[i].to = x
            /\ rooms[k].pendingSyncTime = NoTime
            /\ rooms[k].pendingSyncUser = Null

\* A relayed command of handleVideoControl or handleSync.
RelayOps == ControlTypes \cup {"SYNC"}

\* C10: a relayed PLAY, PAUSE, SEEK, BUFFER or SYNC reaches no session that
\* is navigating and no session whose effective URL differs from the
\* sender's when both are known.
C10_RelayPartition ==
    last.op \in RelayOps =>
        \A i \in 1..Len(sent) :
            LET x == sent[i].to
                room == rooms[last.room]
                senderUrl == IF conn[last.c].currentUrl # Null
                             THEN conn[last.c].currentUrl ELSE room.currentUrl
                clientUrl == IF conn[x].currentUrl # Null
                             THEN conn[x].currentUrl ELSE room.currentUrl
            IN  /\ ~conn[x].isNavigating
                /\ (senderUrl # Null /\ clientUrl # Null) => senderUrl = clientUrl

\* A command was relayed to a client on the sender's URL, both URLs known.
C10_Witness ==
    /\ last.op \in RelayOps
    /\ Len(sent) = 1
    /\ sent[1].to # last.c
    /\ ~conn[sent[1].to].isNavigating
    /\ conn[last.c].currentUrl # Null
    /\ conn[sent[1].to].currentUrl = conn[last.c].currentUrl

\* A room was removed from the registry by the last step.
Removed(k) == rooms[k].live /\ ~rooms'[k].live

\* A JOIN_ROOM that entered a room.
JoinOps == {"JOIN_ROOM", "JOIN_RECONNECT"}

\* C11 as stated: whenever a room is removed from the registry its clients
\* map and its pendingDisconnects map are empty, so no room with a connected
\* client or a user in its grace period is deleted; and a JOIN_ROOM leaves
\* no deletion timer armed on the room it enters.
C11_DeletedOnlyWhenEmpty ==
    [][ /\ \A k \in Codes : Removed(k) => RoomIsEmpty(rooms[k])
        /\ last'.op \in JoinOps => ~rooms'[last'.room].deleteTimeout
      ]_vars

\* C11 amended: a removed room has an empty clients map; a deletion timer
\* removes it only when pendingDisconnects is empty too, while the stale
\* sweep removes it with users in their grace period; and a JOIN_ROOM
\* leaves no deletion timer armed on the room it enters.
C11_TimerDeletesOnlyWhenEmpty ==
    [][ /\ \A k \in Codes :
              Removed(k) =>
                  /\ Len(rooms[k].clients) = 0
                  /\ last'.op # "sweep" => rooms[k].pending = {}
        /\ last'.op \in JoinOps => ~rooms'[last'.room].deleteTimeout
      ]_vars

\* A deletion timer has just removed a room.
C11_Witness ==
    /\ last.op \in {"deleteTimer", "orphanDeleteTimer"}
    /\ ~rooms[last.room].live

CountingTypes == {"ROOM_CREATED", "ROOM_JOINED", "USER_JOINED", "USER_LEFT"}

\* C13: the participants field of every ROOM_CREATED, ROOM_JOINED,
\* USER_JOINED and USER_LEFT equals the size of the room's clients map plus
\* the size of its pendingDisconnects map when the message is sent.
C13_ParticipantsIsEffective ==
    \A i \in 1..Len(sent) :
        sent[i].type \in CountingTypes =>
            sent[i].p.participants =
                Len(rooms[sent[i].room].clients)
                    + Cardinality(rooms[sent[i].room].pending)

\* A joiner is told of two participants: itself and a user in its grace period.
C13_Witness ==
    /\ last.op = "JOIN_ROOM"
    /\ rooms[last.room].pending # {}
    /\ Len(sent) >= 1
    /\ sent[1].type = "ROOM_JOINED"
    /\ sent[1].p.participants = 2

\* The room a step is handled for: the room it names, else its session's.
RoomOf(step, cs) ==
    IF step.room # Null THEN step.room
    ELSE IF step.c \in Conns THEN cs[step.c].roomCode
    ELSE Null

\* The session flags a room's barrier and broadcasts read.
Flags(cd) == <<cd.isReady, cd.isNavigating, cd.isHost, cd.currentUrl>>

\* C14: a step handled for room R changes no other room, changes no flag
\* (isReady, isNavigating, isHost, currentUrl) of a session in another
\* room's clients map, and sends nothing to a session that is in another
\* room's clients map and not in R's.
C14_RoomsAreIsolated ==
    [][ LET R == RoomOf(last', conn)
            members == IF R \in Codes
                       THEN SeqToSet(rooms[R].clients)
                                \cup SeqToSet(rooms'[R].clients) \cup {last'.c}
                       ELSE {last'.c}
        IN  \A k \in Codes \ {R} :
                /\ rooms'[k] = rooms[k]
                /\ \A x \in SeqToSet(rooms[k].clients) :
                      Flags(conn'[x]) = Flags(conn[x])
                /\ \A i \in 1..Len(sent') :
                      sent'[i].to \in SeqToSet(rooms[k].clients) =>
                          sent'[i].to \in members
      ]_vars

\* C15: a session whose connection's close has been handled is in no
\* room's clients map.
C15_ClosedSessionsAreGone ==
    \A c \in Conns :
        conn[c].st = "closed" => \A k \in Codes : c \notin ClientsOf(k)

\* C16: a JOIN_ROOM that finds no room under its code sends ROOM_ERROR with
\* message "Room not found" to its sender and nothing else, and changes no
\* room and no session: the sender keeps its fields, its membership and
\* its connection.
C16_JoinErrorChangesNothing ==
    [][ /\ last'.op = "JOIN_ERROR" =>
            /\ IsOpen(conn, last'.c) =>
                  sent' = <<Msg(last'.c, "ROOM_ERROR", Null,
                                [message |-> "Room not found"])>>
            /\ \A i \in 1..Len(sent') : sent'[i].to = last'.c
            /\ UNCHANGED <<conn, rooms>>
        /\ last'.op \in JoinOps =>
            /\ rooms[last'.room].live
            /\ "ROOM_ERROR" \notin Types(sent')
      ]_vars

\* A member of a room was answered ROOM_ERROR and is still a member.
C16_Witness ==
    /\ last.op = "JOIN_ERROR"
    /\ Len(sent) = 1
    /\ sent[1].type = "ROOM_ERROR"
    /\ conn[last.c].roomCode \in Codes
    /\ last.c \in ClientsOf(conn[last.c].roomCode)

\* The steps that handle a frame the server drops.
DroppedOps == {"MALFORMED", "UNKNOWN_TYPE", "NO_PAYLOAD"}

\* C17: a frame that is malformed, has an unknown type or lacks the payload
\* its handler reads changes no room and no session, arms no timer, sends
\* nothing and leaves the connection as it was.
C17_BadFrameIsDropped ==
    [][ last'.op \in DroppedOps =>
            /\ UNCHANGED <<conn, rooms, navTimers>>
            /\ sent' = <<>>
      ]_vars

\* A frame without payload was dropped on the open connection of a member
\* of a room with another open client.
C17_Witness ==
    /\ last.op = "NO_PAYLOAD"
    /\ IsOpen(conn, last.c)
    /\ conn[last.c].roomCode \in Codes
    /\ ~conn[last.c].isNavigating
    /\ \E x \in OpenClientsOf(conn[last.c].roomCode) : x # last.c

\* C18: CREATE_ROOM inserts a room under a code that was not in the
\* registry and leaves every other room as it was; the new room's only
\* client is the creator, which has isHost and is room.host, and the
\* creator is answered ROOM_CREATED with participants 1 and nothing else
\* is sent.
C18_CreateInsertsNewRoom ==
    [][ last'.op = "CREATE_ROOM" =>
            LET k == last'.room
                c == last'.c
            IN  /\ ~rooms[k].live
                /\ rooms'[k].live
                /\ rooms'[k].clients = <<c>>
                /\ rooms'[k].pending = {}
                /\ rooms'[k].host = c
                /\ conn'[c].isHost
                /\ conn'[c].roomCode = k
                /\ \A j \in Codes \ {k} : rooms'[j] = rooms[j]
                /\ IsOpen(conn, c) =>
                      sent' = <<Msg(c, "ROOM_CREATED", k,
                                    [roomCode |-> k, participants |-> 1])>>
      ]_vars

\* The second connection created a room under the code of a room that has
\* left the registry.
C18_Witness ==
    /\ last.op = "CREATE_ROOM"
    /\ last.c = 2
    /\ conn[1].st = "closed"
    /\ rooms[last.room].clients = <<2>>
    /\ Len(sent) = 1

\* How many messages of the last step went to a connection.
SentTo(msgs, x) == Cardinality({i \in 1..Len(msgs) : msgs[i].to = x})

\* C19: a FORCE_SYNC is sent once to every session of the room's clients
\* map with an open connection, the sender included, whatever its
\* isNavigating flag and URL, and to no one else; every copy carries the
\* payload's currentTime and the sender's username, and afterwards
\* room.videoState has that currentTime and isPlaying = true.
C19_ForceSyncReachesAll ==
    [][ last'.op = "FORCE_SYNC" =>
            LET k == last'.room
                c == last'.c
                open == {x \in SeqToSet(rooms[k].clients) : IsOpen(conn, x)}
            IN  /\ \A x \in open : SentTo(sent', x) = 1
                /\ IsOpen(conn, c) => c \in open
                /\ rooms'[k].videoState.set
                /\ rooms'[k].videoState.isPlaying
                /\ \A i \in 1..Len(sent') :
                      /\ sent'[i].to \in open
                      /\ sent'[i].type = "FORCE_SYNC"
                      /\ sent'[i].p.currentTime = rooms'[k].videoState.currentTime
                      /\ sent'[i].p.username = conn[c].username
      ]_vars

\* A FORCE_SYNC with a currentTime reached its sender and a client that is
\* navigating on another URL.
C19_Witness ==
    /\ last.op = "FORCE_SYNC"
    /\ Len(sent) = 2
    /\ sent[1].p.currentTime = MaxTime
    /\ rooms[last.room].videoState.currentTime = MaxTime
    /\ \E x \in OpenClientsOf(last.room) :
          /\ x # last.c
          /\ conn[x].isNavigating
          /\ conn[x].currentUrl # Null
          /\ conn[last.c].currentUrl # Null
          /\ conn[x].currentUrl # conn[last.c].currentUrl

\* C20: a SYNC_REQUEST is sent to the connection room.host refers to when
\* that connection is open, carrying requestedBy = the requester's
\* username, and to no one else; when room.host is not open nothing is sent.
C20_SyncRequestToHostOnly ==
    [][ last'.op = "SYNC_REQUEST" =>
            LET k == last'.room
                host == rooms[k].host
            IN  IF IsOpen(conn, host)
                THEN sent' = <<Msg(host, "SYNC_REQUEST", k,
                                   [requestedBy |-> conn[last'.c].username])>>
                ELSE sent' = <<>>
      ]_vars

\* A guest's SYNC_REQUEST reached the host while the guest is a client too.
C20_Witness ==
    /\ last.op = "SYNC_REQUEST"
    /\ Len(sent) = 1
    /\ sent[1].to = rooms[last.room].host
    /\ sent[1].to # last.c
    /\ sent[1].p.requestedBy = conn[last.c].username
    /\ last.c \in OpenClientsOf(last.room)

\* C21: a heartbeat tick terminates exactly the sockets whose ping of the
\* previous tick is unanswered, so a socket that answers every ping is never
\* terminated; a terminated socket is then closed through the implicit-leave
\* path: its session leaves the clients map and, when it has a username, waits
\* in pendingDisconnects.
C21_HeartbeatTerminatesSilent ==
    /\ [][last'.op = "heartbeat" =>
            \A c \in Conns :
                conn[c].st \in {"open", "closing"} =>
                    (conn'[c].st = "terminated" <=> conn[c].pingPending)]_vars
    /\ [][\A c \in Conns :
            conn[c].st # "terminated" /\ conn'[c].st = "terminated" =>
                last'.op = "heartbeat"]_vars
    /\ \A c \in Conns : conn[c].st = "terminated" ~> conn[c].st = "closed"
    /\ [][\A c \in Conns :
            conn[c].st = "terminated" /\ conn'[c] # conn[c] =>
                /\ last' = Step("close", c, last'.room, conn[c].username)
                /\ conn'[c].st = "closed"
                /\ \A k \in Codes :
                      c \in ClientsOf(k) /\ conn[c].roomCode = k =>
                          /\ c \notin SeqToSet(rooms'[k].clients)
                          /\ \E e \in rooms'[k].pending :
                                e.username = conn[c].username
                          /\ sent' = <<>>]_vars

\* A tick has terminated a session of a room and spared, in the same room, a
\* session that answered its ping.
C21_Witness ==
    /\ last.op = "heartbeat"
    /\ \E c, d \in Conns :
          /\ conn[c].st = "terminated" /\ c \in ClientsOf("AB23CD")
          /\ conn[d].st = "open" /\ d \in ClientsOf("AB23CD")
          /\ conn[d].pingPending

\* C22: while the auto-clear timer armed by a session's latest URL_CHANGE is
\* pending (timers of one delay fire in the order they were armed, so it is
\* pending as long as any timer of the session is), the session's
\* isNavigating flag is true.
C22_NavigatingUntilOwnTimer ==
    \A c \in Conns : navTimers[c] > 0 => conn[c].isNavigating

\* A video command or SYNC that was handled, relayed or not.
CommandOps == RelayOps \cup {"CONTROL_IGNORED", "SYNC_IGNORED"}

\* C23: a PLAY, PAUSE, SEEK, BUFFER or SYNC from a session whose isNavigating
\* flag is true changes no room (room.videoState included) and no session,
\* and sends nothing.
C23_NavigatingSenderIsIgnored ==
    [][(last'.op \in CommandOps /\ conn[last'.c].isNavigating) =>
            /\ rooms' = rooms
            /\ conn' = conn
            /\ sent' = <<>>]_vars

\* A navigating session of a room sent a command while another client of the
\* room, on the same URL and not navigating, had an open connection.
C23_Witness ==
    /\ last.op \in {"CONTROL_IGNORED", "SYNC_IGNORED"}
    /\ InRoom(last.c)
    /\ conn[last.c].isNavigating
    /\ \E x \in OpenClientsOf(conn[last.c].roomCode) :
          /\ x # last.c
          /\ ~conn[x].isNavigating
          /\ EffectiveUrl(conn[x], rooms[conn[last.c].roomCode])
                = conn[last.c].currentUrl

\* The state of a username in a room of the registry.
ActiveIn(k, u) == rooms[k].live /\ \E c \in ClientsOf(k) : conn[c].username = u

GraceIn(k, u) == rooms[k].live /\ PendingOf(rooms[k], u) # {}

UserState(k, u) ==
    IF GraceIn(k, u) THEN "GRACE_PERIOD"
    ELSE IF ActiveIn(k, u) THEN "ACTIVE" ELSE "ABSENT"

\* C24: no username is at once held by a session of a room's clients map and
\* a key of the room's pendingDisconnects map, and the state of a username in
\* a room never moves from ABSENT to GRACE_PERIOD (every other move between
\* ABSENT, ACTIVE and GRACE_PERIOD is allowed).
C24_UserStateMachine ==
    /\ [](\A k \in Codes, u \in Users : ~(ActiveIn(k, u) /\ GraceIn(k, u)))
    /\ [][\A k \in Codes, u \in Users :
            UserState(k, u) = "ABSENT" => UserState(k, u)' # "GRACE_PERIOD"]_vars

\* C25: a LEAVE_ROOM from a session of room k's clients map removes it from
\* the map and adds no pendingDisconnects entry; when clients remain, each one
\* with an open connection receives exactly one USER_LEFT naming the leaver
\* and nothing else is sent, and when the leaver had isHost one of them becomes
\* host; when no client and no pending disconnect remains the deletion timer
\* is armed; the leaver's roomCode, username and isHost are cleared.
C25_ExplicitLeave ==
    [][\A c \in Conns, k \in Codes :
          (/\ last'.op = "LEAVE_ROOM" /\ last'.c = c
           /\ conn[c].roomCode = k /\ rooms[k].live /\ c \in ClientsOf(k)) =>
             LET remaining == ClientsOf(k) \ {c}
                 u == conn[c].username
             IN  /\ rooms'[k].live
                 /\ SeqToSet(rooms'[k].clients) = remaining
                 /\ rooms'[k].pending \subseteq rooms[k].pending
                 /\ remaining # {} =>
                       /\ \A x \in remaining :
                             IsOpen(conn, x) => CountTo(sent', x, "USER_LEFT", u) = 1
                       /\ \A i \in 1..Len(sent') :
                             /\ sent'[i].type = "USER_LEFT"
                             /\ sent'[i].to \in remaining
                       /\ conn[c].isHost =>
                             \E x \in remaining :
                                 conn'[x].isHost /\ rooms'[k].host = x
                 /\ (remaining = {} /\ rooms'[k].pending = {}) =>
                       rooms'[k].deleteTimeout
                 /\ conn'[c].roomCode = Null
                 /\ conn'[c].username = Null
                 /\ ~conn'[c].isHost]_vars

\* A session evicted by a JOIN_ROOM under its username: its socket is closing
\* and no clients map holds it.
Evicted(c) ==
    /\ conn[c].st = "closing"
    /\ conn[c].roomCode # Null
    /\ \A k \in Codes : c \notin ClientsOf(k)

\* C26: the close of an evicted session changes no room (no pendingDisconnects
\* entry is created, the replacing session stays in clients) and sends nothing.
C26_EvictedCloseIsSilent ==
    [][\A c \in Conns :
          (Evicted(c) /\ last'.op = "close" /\ last'.c = c) =>
              /\ rooms' = rooms
              /\ sent' = <<>>
              /\ conn'[c].st = "closed"]_vars

\* An evicted session has just been closed while its replacement is a client
\* of the room under the same username.
C26_Witness ==
    /\ last.op = "close"
    /\ last.room \in Codes
    /\ conn[last.c].st = "closed"
    /\ rooms[last.room].live
    /\ rooms[last.room].pending = {}
    /\ \E x \in OpenClientsOf(last.room) :
          x # last.c /\ conn[x].username = last.user

\* C27: a URL_CHANGE with a url and a currentTime from a session of room k's
\* clients map sets the session's and the room's currentUrl to the url, leaves
\* every session of the clients map, the sender included, with isReady false,
\* stores the currentTime as pendingSyncTime and the sender's username as
\* pendingSyncUser, and leaves videoState, clients and pendingDisconnects as
\* they were.
C27_UrlChangeEffect ==
    [][\A c \in Conns, url \in Urls, t \in Times, k \in Codes :
          (/\ last'.op = "URL_CHANGE" /\ last'.c = c
           /\ conn[c].roomCode = k /\ rooms[k].live /\ c \in ClientsOf(k)
           /\ UrlChange(c, url, t)) =>
             /\ conn'[c].currentUrl = url
             /\ rooms'[k].currentUrl = url
             /\ \A x \in ClientsOf(k) \cup {c} : ~conn'[x].isReady
             /\ rooms'[k].pendingSyncTime = t
             /\ rooms'[k].pendingSyncUser = conn[c].username
             /\ rooms'[k].videoState = rooms[k].videoState
             /\ rooms'[k].clients = rooms[k].clients
             /\ rooms'[k].pending = rooms[k].pending]_vars

\* A URL_CHANGE with a currentTime has just been handled in a room with a
\* videoState and a second client.
C27_Witness ==
    /\ last.op = "URL_CHANGE"
    /\ rooms[last.room].videoState.set
    /\ rooms[last.room].pendingSyncTime = MaxTime
    /\ rooms[last.room].currentUrl = conn[last.c].currentUrl
    /\ \E x \in ClientsOf(last.room) : x # last.c /\ ~conn[x].isReady
    /\ ~conn[last.c].isReady

\* C28: an accepted PLAY, PAUSE, SEEK or BUFFER sets room.videoState to the
\* payload's currentTime, with isPlaying true for PLAY, false for PAUSE,
\* payload.isPlaying for SEEK and the negation of payload.isBuffering for
\* BUFFER; every relayed copy has the command's type and carries that
\* currentTime, that isPlaying and the sender's username.
C28_ControlSetsVideoState ==
    [][\A c \in Conns, in \in ControlInputs, t \in Times :
          (/\ last'.op = in[1] /\ last'.c = c
           /\ InRoom(c) /\ ~conn[c].isNavigating
           /\ VideoControl(c, in[1], t, in[2])) =>
             LET k == conn[c].roomCode
                 expected == CASE in[1] = "PLAY" -> TRUE
                               [] in[1] = "PAUSE" -> FALSE
                               [] in[1] = "SEEK" -> in[2]
                               [] in[1] = "BUFFER" -> ~in[2]
             IN  /\ rooms'[k].videoState.set
                 /\ rooms'[k].videoState.currentTime = t
                 /\ rooms'[k].videoState.isPlaying = expected
                 /\ \A i \in 1..Len(sent') :
                       /\ sent'[i].type = in[1]
                       /\ sent'[i].p.currentTime = t
                       /\ sent'[i].p.isPlaying = expected
                       /\ sent'[i].p.username = conn[c].username]_vars

\* A BUFFER with isBuffering true has just been relayed as not playing.
C28_Witness ==
    /\ last.op = "BUFFER"
    /\ Len(sent) > 0
    /\ sent[1].p.isBuffering
    /\ ~sent[1].p.isPlaying
    /\ sent[1].p.username = last.user
    /\ ~rooms[last.room].videoState.isPlaying
    /\ rooms[last.room].videoState.currentTime = MaxTime

\* Messages the server answers the sender with: the replies to CREATE_ROOM
\* and JOIN_ROOM, the stored videoState sent to a joiner among them.
IsReply(m) ==
    \/ m.type \in {"ROOM_CREATED", "ROOM_JOINED", "ROOM_ERROR"}
    \/ m.type = "SYNC" /\ last.op \in JoinOps

EchoedTypes == {"FORCE_SYNC", "ALL_READY", "WAITING_FOR_OTHERS"}

\* FORCE_SYNC, ALL_READY and WAITING_FOR_OTHERS reach their sender when it is
\* a client of the room with an open connection.
EchoReachesSender ==
    (last.op \in {"FORCE_SYNC", "VIDEO_READY"} /\ last.room \in Codes
        /\ last.c \in OpenClientsOf(last.room)) =>
            \E i \in 1..Len(sent) :
                sent[i].to = last.c /\ sent[i].type \in EchoedTypes

\* C29 as stated: apart from the replies, the only messages the handling of
\* a message delivers to the connection that sent it are FORCE_SYNC, ALL_READY
\* and WAITING_FOR_OTHERS (so no relayed PLAY, PAUSE, SEEK, BUFFER, SYNC,
\* CHAT or URL_CHANGE and no USER_JOINED comes back to it).
C29_OnlyThreeEchoed ==
    /\ \A i \in 1..Len(sent) :
          sent[i].to = last.c =>
              IsReply(sent[i]) \/ sent[i].type \in EchoedTypes
    /\ EchoReachesSender

\* C29, amended: as above, except that a SYNC_REQUEST sent by the session
\* room.host refers to is delivered back to it.
C29_NoRelayToSender ==
    /\ \A i \in 1..Len(sent) :
          sent[i].to = last.c =>
              \/ IsReply(sent[i])
              \/ sent[i].type \in EchoedTypes
              \/ /\ sent[i].type = "SYNC_REQUEST"
                 /\ last.op = "SYNC_REQUEST"
                 /\ rooms[last.room].host = last.c
    /\ EchoReachesSender

\* The host's own SYNC_REQUEST has just come back to it while a second
\* client was connected.
C29_Witness ==
    /\ last.op = "SYNC_REQUEST"
    /\ Len(sent) = 1
    /\ sent[1].to = last.c
    /\ \E x \in OpenClientsOf(last.room) : x # last.c

\* C30: a sweep removes exactly the rooms of the registry that are older than
\* 4 hours and have an empty clients map, whatever their pendingDisconnects
\* and deletion timer, so it never removes a room with a client in its map.
C30_SweepDeletesStaleRooms ==
    [][last'.op = "sweep" =>
          \A k \in Codes :
              rooms[k].live =>
                  (~rooms'[k].live <=>
                      (rooms[k].stale /\ Len(rooms[k].clients) = 0))]_vars

\* A sweep has just removed a room with a user in its grace period and left
\* a room as old that has a client.
C30_Witness ==
    /\ last.op = "sweep"
    /\ \E k, j \in Codes :
          /\ ~rooms[k].live /\ orphans[k].grace > 0
          /\ rooms[j].live /\ rooms[j].stale /\ Len(rooms[j].clients) > 0

\* The positions in msgs of the messages of a type written to x.
IndexesTo(msgs, x, type) ==
    {i \in 1..Len(msgs) : msgs[i].to = x /\ msgs[i].type = type}

\* C31: a JOIN_ROOM that enters a room on an open connection is answered
\* with one ROOM_JOINED; when the room's videoState is set, exactly one SYNC
\* carrying that videoState follows it to the joiner, and when it is unset no
\* SYNC is sent to the joiner.
C31_JoinerGetsSync ==
    [][\A c \in Conns :
          (last'.op \in JoinOps /\ last'.c = c /\ IsOpen(conn, c)) =>
              LET k == last'.room
                  joined == IndexesTo(sent', c, "ROOM_JOINED")
                  syncs == IndexesTo(sent', c, "SYNC")
              IN  /\ Cardinality(joined) = 1
                  /\ IF rooms[k].videoState.set
                     THEN /\ Cardinality(syncs) = 1
                          /\ \A i \in syncs :
                                /\ sent'[i].p = rooms[k].videoState
                                /\ \A j \in joined : j < i
                     ELSE syncs = {}]_vars

\* A session has just joined a room with a videoState and was sent it.
C31_Witness ==
    /\ last.op \in JoinOps
    /\ rooms[last.room].videoState.set
    /\ Len(sent) >= 2
    /\ sent[Len(sent)].type = "SYNC"
    /\ sent[Len(sent)].to = last.c
    /\ sent[Len(sent)].p.currentTime = MaxTime

\* C32: every armed grace timer is the timer of a pendingDisconnects entry of
\* a room of the registry, at most one per room and username; a grace timer
\* of a room that has left the registry sends nothing, elects no host and
\* arms no deletion timer.
C32_GraceTimersAreCurrent ==
    /\ [](\A k \in Codes :
            /\ orphans[k].grace = 0
            /\ \A u \in Users : Cardinality(PendingOf(rooms[k], u)) <= 1)
    /\ [][last'.op = "orphanGraceTimer" =>
            /\ sent' = <<>>
            /\ rooms' = rooms
            /\ conn' = conn
            /\ \A k \in Codes : orphans'[k].del = orphans[k].del]_vars

\* C33: a session is in the clients map of a room of the registry exactly
\* when its roomCode is that room's code, so it is in the clients map of at
\* most one room.
C33_SingleMembership ==
    \A c \in Conns, k \in Codes :
        rooms[k].live => (c \in ClientsOf(k) <=> conn[c].roomCode = k)

\* C34: in every room of the registry at most one session of the clients map
\* has isHost, and a session of the clients map has isHost exactly when
\* room.host refers to its connection.
C34_HostFlagMatchesRoomHost ==
    \A k \in Codes :
        rooms[k].live =>
            /\ Cardinality({x \in ClientsOf(k) : conn[x].isHost}) <= 1
            /\ \A x \in ClientsOf(k) : conn[x].isHost <=> rooms[k].host = x

\* A URL_CHANGE of room k has not been answered by an ALL_READY.
BarrierPending(k) ==
    rooms[k].live /\ barrier[k].active /\ ~barrier[k].released

EveryClientReady(k) ==
    ClientsOf(k) # {} /\ \A x \in ClientsOf(k) : conn[x].isReady

\* C35: a room whose barrier is pending while every session of its clients
\* map is ready does not stay so: ALL_READY is broadcast (or the room stops
\* being in that state) without a further VIDEO_READY having to arrive.
C35_BarrierNeverStuck ==
    \A k \in Codes :
        (BarrierPending(k) /\ EveryClientReady(k)) ~>
            (~(BarrierPending(k) /\ EveryClientReady(k))
                \/ last.op = "VIDEO_READY")

\* C36: a PLAY, PAUSE, SEEK, BUFFER or SYNC changes room.videoState only when
\* the sender's effective URL equals the room's currentUrl or one of the two
\* is unknown.
C36_VideoStateFollowsRoomUrl ==
    [][\A k \in Codes :
          (/\ last'.op \in RelayOps
           /\ last'.room = k
           /\ rooms'[k].videoState # rooms[k].videoState) =>
             LET senderUrl == EffectiveUrl(conn[last'.c], rooms[k])
             IN  \/ senderUrl = Null
                 \/ rooms[k].currentUrl = Null
                 \/ senderUrl = rooms[k].currentUrl]_vars

\* Messages a session sends about the room it is in.
RoomOps ==
    RelayOps \cup {"CHAT", "URL_CHANGE", "VIDEO_READY", "FORCE_SYNC",
                   "SYNC_REQUEST"}

\* C37: a message from an evicted session (its roomCode still names the room,
\* no clients map holds it) delivers nothing to the room's clients and leaves
\* the room's videoState and currentUrl and every member's isReady unchanged.
C37_EvictedSessionIsMute ==
    [][\A c \in Conns, k \in Codes :
          (/\ Evicted(c) /\ conn[c].roomCode = k /\ rooms[k].live
           /\ last'.c = c /\ last'.op \in RoomOps) =>
             /\ \A i \in 1..Len(sent') : sent'[i].to \notin ClientsOf(k)
             /\ rooms'[k].videoState = rooms[k].videoState
             /\ rooms'[k].currentUrl = rooms[k].currentUrl
             /\ \A x \in ClientsOf(k) : conn'[x].isReady = conn[x].isReady]_vars

\* Frames of the given type the last client step sent.
ClientSent(cl, type) == {i \in 1..Len(cl.out) : cl.out[i].type = type}

\* C38: reconnectAttempts never exceeds 5 and at most one reconnect timer is
\* armed; the open of a reconnect attempt leaves reconnectAttempts at 0 and,
\* when roomCode is set, sends JOIN_ROOM with that room code and the username
\* on the opened socket.
C38_ReconnectBookkeeping ==
    /\ [](client.reconnectAttempts <= MAX_RECONNECT_ATTEMPTS /\ client.timers <= 1)
    /\ [][\A s \in Sockets :
             (WsOnOpen(s) /\ client.socks[s].origin = "reconnect") =>
                /\ client'.reconnectAttempts = 0
                /\ client.roomCode # Null =>
                      \E i \in ClientSent(client', "JOIN_ROOM") :
                          /\ client'.out[i].to = s
                          /\ client'.out[i].p = [roomCode |-> client.roomCode,
                                                 username |-> client.username]]_vars

\* C39: from the return of disconnect() until the page calls connect() again,
\* no socket is created and no reconnect timer is armed (roomCode still
\* cleared: the page has not called joinRoom either).
C39_DisconnectIsFinal ==
    [][(client.disconnected /\ client'.disconnected /\ client.roomCode = Null) =>
          /\ Created(client') = Created(client)
          /\ client'.timers <= client.timers]_vars

\* C40: the 5-second timer of connect() call s changes the state of no socket
\* but the one that call created, and does not throw on a cleared ws.
C40_TimeoutClosesOwnSocket ==
    [][\A s \in Sockets :
          ConnectionTimeout(s) =>
             /\ ~client'.threw
             /\ \A x \in Sockets \ {s} :
                   client'.socks[x].st = client.socks[x].st]_vars

====
